---- MODULE Spec2Model ----
(***************************************************************************)
(* State-machine model of e2u/dynamic-proxy.                               *)
(*                                                                         *)
(*   Spec       the badger store and everything that reads or writes it:   *)
(*              discovery writer, health re-check, cleanup, the regular    *)
(*              request handler with its usage counters, and the clock.    *)
(*   MaintSpec  the store under the maintenance tasks alone.               *)
(*   ProbeSpec  determineConnectionProtocol: three probe goroutines, the   *)
(*              closer goroutine and the collector loop.                   *)
(*   ConnSpec   handleConnect and the two tunnel copiers.                  *)
(*   PipeSpec   gatherProxies: validation goroutines, the proxies channel  *)
(*              and the writer goroutine.                                  *)
(*   ValidSpec  ValidProxy applied to candidates drawn from bounded sets.  *)
(*   ExtractSpec  Extractor, with the JSON/text and the HTML-table         *)
(*              extractor, applied to one payload.                         *)
(*   FwdSpec    the headers of a regular request from the client to the    *)
(*              upstream connection.                                       *)
(*   SchedSpec  main in its default mode: the three startup calls, then    *)
(*              the cron scheduler and the jobs it starts.                 *)
(*                                                                         *)
(* Time is counted in hours; the zero time.Time is 0.                      *)
(***************************************************************************)
EXTENDS Integers, Sequences, FiniteSets, TLC

VARIABLES
    db,          \* badger store: key (string) -> stored value
    now,         \* wall clock, in hours
    rpc,         \* handleRegularRequest: position of the request in flight
    rproxy,      \* handleRegularRequest: result of selectProxyFromDB
    rcause,      \* handleRegularRequest: how the last request ended
    rstatus,     \* handleRegularRequest: status the client received
    hcActive,    \* checkAllProxiesHealth: a pass is running
    hcPending,   \* checkAllProxiesHealth: records whose goroutine has not run
    hcResult,    \* checkAllProxiesHealth: key listed -> verdict of its goroutine (MaintSpec)
    cleanRes,    \* cleanupProxiesFromDB: (deletedCount, start time) of last pass
    peerOK,      \* prober: protocols the peer answers
    tcpOK,       \* prober: the initial TCP dial succeeds
    ppc,         \* prober: position of each probe goroutine
    ctxDone,     \* prober: the shared context is cancelled or expired
    timedOut,    \* prober: a timer (context deadline, read timer) has fired
    resultChan,  \* prober: buffered result channel
    chanClosedP, \* prober: result channel closed
    bestResult,  \* prober: collector's best result so far
    dpc,         \* prober: position of determineConnectionProtocol
    dret,        \* prober: returned (label, err)
    hpc,         \* handleConnect: position of the handler
    wStatus,     \* handleConnect: status line the client received (0 = none yet)
    hProxies,    \* ProxyHandler.proxies, the in-memory list
    sock,        \* handleConnect: state of the client and the upstream socket
    closeCalls,  \* handleConnect: Close() calls made on each socket
    cpc,         \* tunnel: position of each copier goroutine
    eof,         \* tunnel: which peer has ended its stream
    tunnelOpen,  \* tunnel: the copiers have been started
    tpc,         \* discovery: position of each validation goroutine
    trec,        \* discovery: the candidate each goroutine holds
    chanBuf,     \* discovery: buffer of proxiesChan
    chanClosed,  \* discovery: proxiesChan closed
    sent,        \* discovery: goroutines whose send has completed
    observed,    \* discovery: sends the writer has received, in order
    wpc,         \* discovery: position of the writer goroutine
    gpc,         \* discovery: position of gatherProxies
    newProxyCount,     \* discovery: writer's count of inserted records
    updateCount,       \* discovery: writer's updateProxyCount, overwritten records
    vin,         \* validator: the call's inputs
    vpc,         \* validator: position of the call
    vout,        \* validator: (verdict, candidate) on return
    mpc,         \* main: position in the default (no-flag) mode
    mi,          \* main: index of the startup call being made
    cronOn,      \* cron: c.Start() has been called
    slot,        \* wall clock: half-hour of the current two-hour period
    running,     \* maintenance task -> number of its calls executing now
    startupLog,  \* startup calls that have returned, in order
    fired,       \* cron has launched at least one job
    body,        \* Extractor: the payload, as the matches and table rows it holds
    epc,         \* Extractor: (extractor being run, phase) or done
    epending,    \* Extractor: candidates whose validation goroutine has not finished
    ecount,      \* extractor -> its totalProxyCount
    ran,         \* extractors that have been called on the payload
    handed,      \* candidates passed to ValidProxy, with the extractor that did
    sentOut,     \* records sent on proxiesChan
    fpc,         \* regular request: position of ServeHTTP / handleRegularRequest
    method,      \* regular request: r.Method
    clientHdr,   \* regular request: r.Header as the server received it
    rHdr,        \* regular request: r.Header
    reqHdr,      \* regular request: req.Header of the outgoing request
    wire,        \* regular request: header lines written to the upstream connection
    dialAttempts, \* CONNECT: selections and dials made for the current request
    recovered,   \* CONNECT: the handler's deferred recover() caught a fault
    jrec,        \* codec: the record handed to DumpJSON
    jpc,         \* codec: position of the round trip
    jval,        \* codec: the value DumpJSON returned
    jdec,        \* codec: what LoadFromJSON returned for jval
    jval2,       \* codec: the value DumpJSON returned for the decoded record
    s5addr,      \* socks5 dial: the target, host and port of addr
    s5proxy,     \* transport dial: Protocol, User and Pass of the selected upstream
    s5pc,        \* socks5 dial: position in dialSOCKS5
    s5conn,      \* socks5 dial: the connection to the upstream
    s5wire,      \* socks5 dial: the messages written to the upstream, in order
    s5req,       \* socks5 dial: the CONNECT request written
    s5route,     \* transport dial: how DialContext reaches the target
    cleaned,     \* keys a cleanup pass deleted while the current health pass was running
    served,      \* usage counter: successful requests per upstream since its counter was created
    r5reply,     \* socks5 reply: the bytes of the server's reply to CONNECT
    r5payload,   \* socks5 reply: the bytes of tunnelled payload that follow it on the connection
    r5pc,        \* socks5 reply: position in socks5ReadConnectResponse
    r5pos,       \* socks5 reply: bytes socks5ReadConnectResponse has taken off the connection
    r5hdr,       \* socks5 reply: the header buffer
    r5need,      \* socks5 reply: addrLen + 2
    wlist,       \* weighted selector: the Count of each record of h.proxies, in list order
    wspc,        \* weighted selector: "select" before a call, "picked" after it
    wpick        \* weighted selector: index of the record returned, 0 for nil

storeRest == <<now, rpc, rproxy, rcause, rstatus, hcActive, hcPending, hcResult, cleanRes, cleaned>>
storeVars == <<db, storeRest>>
probeVars == <<peerOK, tcpOK, ppc, ctxDone, timedOut, resultChan, chanClosedP,
               bestResult, dpc, dret>>
connHist == <<dialAttempts, recovered>>
connVars == <<hpc, wStatus, hProxies, sock, closeCalls, cpc, eof, tunnelOpen, connHist>>
pipeVars == <<tpc, trec, chanBuf, chanClosed, sent, observed, wpc, gpc,
              newProxyCount, updateCount>>
validVars == <<vin, vpc, vout>>
schedVars == <<mpc, mi, cronOn, slot, running, startupLog, fired>>
extVars == <<body, epc, epending, ecount, ran, handed, sentOut>>
fwdVars == <<fpc, method, clientHdr, rHdr, reqHdr, wire>>
codecVars == <<jrec, jpc, jval, jdec, jval2>>
socksVars == <<s5addr, s5proxy, s5pc, s5conn, s5wire, s5req, s5route>>
countVars == <<served>>
replyVars == <<r5reply, r5payload, r5pc, r5pos, r5hdr, r5need>>
weightVars == <<wlist, wspc, wpick>>
vars == <<storeVars, probeVars, connVars, pipeVars, validVars, schedVars, extVars, fwdVars, codecVars, socksVars, countVars, replyVars, weightVars>>

-----------------------------------------------------------------------------
(* Bounds and program constants *)

MaxNow == 80            \* the clock stops here
MaxCount == 2           \* requests are admitted while a usage counter is below
MaxServed == 256        \* successful requests counted per upstream
MaxWeight == 3          \* the in-memory Count of a record stops here
MaxList == 3            \* records in the in-memory list
MaxAge == 72            \* cleanupProxiesFromDB: maxAge := 72 * time.Hour
TickSteps == {72, 73}   \* hours the clock may jump at once

IPs == {"1.2.3.4", "0.0.0.0"}
Ports == {"80"}
Hints == {"", "http"}
Labels == {"socks5", "http", "https"}
StoreLabels == {"socks5", "http"}     \* labels the peers of Spec can be given
\* net/http status codes the handlers write
StatusOK == 200
StatusInternalServerError == 500
StatusBadGateway == 502
StatusServiceUnavailable == 503

NoProxy == [IP |-> "", Port |-> "", Protocol |-> "", Disable |-> FALSE, Updated |-> 0]

-----------------------------------------------------------------------------
(* Proxy record and its codec *)

\* Proxy.String / Proxy.Address
String(p) == p.Protocol \o "://" \o p.IP \o ":" \o p.Port

\* json.Marshal of a Proxy: an object with the five tagged fields
DumpJSON(p) ==
    [kind |-> "json", ip |-> p.IP, port |-> p.Port, protocol |-> p.Protocol,
     disable |-> p.Disable, updated |-> p.Updated]

\* a stored value that is not a JSON object: the one-byte usage counters
Bytes(b) == [kind |-> "bytes", b |-> b]

\* json.Unmarshal leaving the updated field at its zero value
LoadFromJSON_NoUpdated(v) ==
    IF v.kind = "json"
    THEN [err |-> FALSE,
          p |-> [IP |-> v.ip, Port |-> v.port, Protocol |-> v.protocol,
                 Disable |-> v.disable, Updated |-> 0]]
    ELSE [err |-> TRUE, p |-> NoProxy]

\* json.Unmarshal into a Proxy; a one-byte value is never a JSON object
LoadFromJSON(v) ==
    IF v.kind = "json"
    THEN [err |-> FALSE,
          p |-> [IP |-> v.ip, Port |-> v.port, Protocol |-> v.protocol,
                 Disable |-> v.disable, Updated |-> v.updated]]
    ELSE [err |-> TRUE, p |-> NoProxy]

-----------------------------------------------------------------------------
(* Store primitives *)

EmptyDB == [k \in {} |-> Bytes(0)]

\* txn.Set
Set(d, k, v) == [x \in DOMAIN d \cup {k} |-> IF x = k THEN v ELSE d[x]]

\* txn.Delete of a set of keys
Delete(d, ks) == [x \in DOMAIN d \ ks |-> d[x]]

-----------------------------------------------------------------------------
(* Validator *)

\* what determineConnectionProtocol can hand back: ("", err) or (label, nil)
ProbeResults ==
    {[err |-> TRUE, label |-> ""]} \cup {[err |-> FALSE, label |-> l] : l \in Labels}

\* status seen by OnResponseHeaders of the reachability fetch; 0 = no response
Statuses == {0, 200, 204}

\* ValidProxy accepting any 2xx answer of the reachability fetch
ValidProxy_Any2xx(p, probe, status, t) ==
    IF p.IP = "" \/ p.IP = "0.0.0.0" \/ p.IP = "127.0.0.1"
    THEN [ok |-> FALSE, p |-> p]
    ELSE IF probe.err
    THEN [ok |-> FALSE, p |-> p]
    ELSE LET q == [p EXCEPT !.Protocol = probe.label] IN
         IF q.Protocol = ""
         THEN [ok |-> FALSE, p |-> q]
         ELSE IF status >= 200 /\ status < 300
         THEN [ok |-> TRUE, p |-> [q EXCEPT !.Updated = t, !.Disable = FALSE]]
         ELSE [ok |-> FALSE, p |-> [q EXCEPT !.Disable = TRUE]]

\* ValidProxy keeping the protocol the candidate came with
ValidProxy_KeepsHint(p, probe, status, t) ==
    IF p.IP = "" \/ p.IP = "0.0.0.0" \/ p.IP = "127.0.0.1"
    THEN [ok |-> FALSE, p |-> p]
    ELSE IF probe.err
    THEN [ok |-> FALSE, p |-> p]
    ELSE LET q == [p EXCEPT !.Protocol = IF p.Protocol # "" THEN p.Protocol ELSE probe.label] IN
         IF q.Protocol = ""
         THEN [ok |-> FALSE, p |-> q]
         ELSE IF status = 204
         THEN [ok |-> TRUE, p |-> [q EXCEPT !.Updated = t, !.Disable = FALSE]]
         ELSE [ok |-> FALSE, p |-> [q EXCEPT !.Disable = TRUE]]

\* ValidProxy(p): returns the verdict and the candidate as it leaves it
ValidProxy(p, probe, status, t) ==
    IF p.IP = "" \/ p.IP = "0.0.0.0" \/ p.IP = "127.0.0.1"
    THEN [ok |-> FALSE, p |-> p]
    ELSE IF probe.err
    THEN [ok |-> FALSE, p |-> p]
    ELSE LET q == [p EXCEPT !.Protocol = probe.label] IN
         IF q.Protocol = ""
         THEN [ok |-> FALSE, p |-> q]
         ELSE IF status = 204
         THEN [ok |-> TRUE, p |-> [q EXCEPT !.Updated = t, !.Disable = FALSE]]
         ELSE [ok |-> FALSE, p |-> [q EXCEPT !.Disable = TRUE]]

-----------------------------------------------------------------------------
(* Selector *)

\* the filter of selectProxyFromDB without its Disable test
Eligible_NoDisableTest(d) ==
    {LoadFromJSON(d[k]).p : k \in {x \in DOMAIN d :
        /\ ~LoadFromJSON(d[x]).err
        /\ LoadFromJSON(d[x]).p.Updated # 0}}

\* the filtered slice built inside the View transaction of selectProxyFromDB
Eligible(d) ==
    {LoadFromJSON(d[k]).p : k \in {x \in DOMAIN d :
        /\ ~LoadFromJSON(d[x]).err
        /\ ~LoadFromJSON(d[x]).p.Disable
        /\ LoadFromJSON(d[x]).p.Updated # 0}}

\* selectProxyFromDB: every (proxy, err) it can return
selectProxyFromDB(d, viewErr) ==
    IF viewErr THEN {[err |-> "view", p |-> NoProxy]}
    ELSE IF Eligible(d) = {} THEN {[err |-> "no available proxies in database", p |-> NoProxy]}
    ELSE {[err |-> "", p |-> q] : q \in Eligible(d)}

-----------------------------------------------------------------------------
(* Usage counters *)

\* proxy.Addr is empty for a record loaded from the store
ProxyAddr(p) == p.IP \o ":" \o p.Port

CountKey(p) == "proxy_count_" \o ProxyAddr(p)
HealthKey(p) == "proxy_health_" \o ProxyAddr(p)

Min(a, b) == IF a < b THEN a ELSE b
Max(a, b) == IF a > b THEN a ELSE b

\* the Update transaction of updateProxyCount
updateProxyCount(d, p) ==
    IF CountKey(p) \in DOMAIN d
    THEN Set(d, CountKey(p), Bytes((d[CountKey(p)].b + 1) % 256))
    ELSE Set(d, CountKey(p), Bytes(1))

\* the Update transaction of updateProxyHealth: a missing key aborts it
updateProxyHealth(d, p, successful) ==
    IF HealthKey(p) \notin DOMAIN d THEN d
    ELSE IF successful
    THEN Set(d, HealthKey(p), Bytes(Min(d[HealthKey(p)].b + 1, 100) % 256))
    ELSE Set(d, HealthKey(p), Bytes(Max(d[HealthKey(p)].b - 10, 0) % 256))

-----------------------------------------------------------------------------
(* Maintenance: cleanup, listing *)

\* the cleanup decision without its Disable branch
shouldDelete_KeepsDisabled(v, t) ==
    IF LoadFromJSON(v).err THEN TRUE
    ELSE LET p == LoadFromJSON(v).p IN
         \/ p.Updated = 0
         \/ (p.Updated # 0 /\ t - p.Updated > MaxAge)

\* the cleanup decision with the age test made inclusive
shouldDelete_AtMaxAge(v, t) ==
    IF LoadFromJSON(v).err THEN TRUE
    ELSE LET p == LoadFromJSON(v).p IN
         \/ p.Disable
         \/ p.Updated = 0
         \/ (p.Updated # 0 /\ t - p.Updated >= MaxAge)

\* the decision taken for one item inside cleanupProxiesFromDB
shouldDelete(v, t) ==
    IF LoadFromJSON(v).err THEN TRUE
    ELSE LET p == LoadFromJSON(v).p IN
         \/ p.Disable
         \/ p.Updated = 0
         \/ (p.Updated # 0 /\ t - p.Updated > MaxAge)

keysToDelete(d, t) == {k \in DOMAIN d : shouldDelete(d[k], t)}

\* listAllProxiesFromDB: every entry that decodes
listAllProxiesFromDB(d) ==
    {LoadFromJSON(d[k]).p : k \in {x \in DOMAIN d : ~LoadFromJSON(d[x]).err}}

\* the Update transaction of the gatherProxies writer for one received record
WriterTxn(d, p) == Set(d, String(p), DumpJSON(p))

-----------------------------------------------------------------------------
(* Spec: the store and its readers and writers *)

\* no goroutine of the pass has returned yet
NoResults == [k \in {} |-> FALSE]

StoreInit ==
    /\ db = EmptyDB
    /\ now = 1
    /\ rpc = "idle"
    /\ rproxy = NoProxy
    /\ rcause = "none"
    /\ rstatus = 0
    /\ hcActive = FALSE
    /\ hcPending = {}
    /\ hcResult = NoResults
    /\ cleanRes = [ran |-> FALSE, deleted |-> 0, now |-> 0]
    /\ cleaned = {}

\* prober outcomes for the peers of Spec
StoreProbes == {r \in ProbeResults : r.err \/ r.label \in StoreLabels}

\* time passes
Tick ==
    /\ \E d \in TickSteps : now + d <= MaxNow /\ now' = now + d
    /\ UNCHANGED <<db, rpc, rproxy, rcause, rstatus, hcActive, hcPending, hcResult, cleanRes, cleaned>>
    /\ UNCHANGED <<probeVars, connVars, pipeVars, validVars, schedVars, extVars, fwdVars, codecVars, socksVars, countVars, replyVars, weightVars>>

\* one extracted candidate: validation goroutine, channel, writer transaction
DiscoveryWrite ==
    /\ \E ip \in IPs, port \in Ports, hint \in Hints, probe \in StoreProbes, st \in Statuses :
         LET c == [IP |-> ip, Port |-> port, Protocol |-> hint, Disable |-> FALSE, Updated |-> 0]
             r == ValidProxy(c, probe, st, now)
         IN /\ r.ok
            /\ db' = WriterTxn(db, r.p)
    /\ UNCHANGED <<now, rpc, rproxy, rcause, rstatus, hcActive, hcPending, hcResult, cleanRes, cleaned>>
    /\ UNCHANGED <<probeVars, connVars, pipeVars, validVars, schedVars, extVars, fwdVars, codecVars, socksVars, countVars, replyVars, weightVars>>

\* checkAllProxiesHealth: list the store, spawn one goroutine per record
HealthStart ==
    /\ ~hcActive
    /\ hcActive' = TRUE
    /\ hcPending' = listAllProxiesFromDB(db)
    /\ hcResult' = NoResults
    /\ cleaned' = {}
    /\ UNCHANGED <<db, now, rpc, rproxy, rcause, rstatus, cleanRes>>
    /\ UNCHANGED <<probeVars, connVars, pipeVars, validVars, schedVars, extVars, fwdVars, codecVars, socksVars, countVars, replyVars, weightVars>>

\* what the goroutine of checkAllProxiesHealth does to the store for record p
healthWrite(d, p, probe, st, t) ==
    LET r == ValidProxy(p, probe, st, t)
        q == [r.p EXCEPT !.Disable = TRUE]
    IN IF r.ok THEN d ELSE Set(d, String(q), DumpJSON(q))

\* checkAllProxiesHealth: the goroutine of one listed record
HealthCheckOne ==
    /\ hcActive
    /\ \E p \in hcPending, probe \in StoreProbes, st \in Statuses :
         /\ db' = healthWrite(db, p, probe, st, now)
         /\ hcPending' = hcPending \ {p}
    /\ UNCHANGED <<now, rpc, rproxy, rcause, rstatus, hcActive, hcResult, cleanRes, cleaned>>
    /\ UNCHANGED <<probeVars, connVars, pipeVars, validVars, schedVars, extVars, fwdVars, codecVars, socksVars, countVars, replyVars, weightVars>>

\* the same goroutine, with its verdict recorded under the key the record was
\* listed from
HealthCheckLogged ==
    /\ hcActive
    /\ \E p \in hcPending, probe \in StoreProbes, st \in Statuses :
         /\ db' = healthWrite(db, p, probe, st, now)
         /\ hcPending' = hcPending \ {p}
         /\ hcResult' = Set(hcResult, String(p), ValidProxy(p, probe, st, now).ok)
    /\ UNCHANGED <<now, rpc, rproxy, rcause, rstatus, hcActive, cleanRes, cleaned>>
    /\ UNCHANGED <<probeVars, connVars, pipeVars, validVars, schedVars, extVars, fwdVars, codecVars, socksVars, countVars, replyVars, weightVars>>

\* checkAllProxiesHealth: wg.Wait returns
HealthDone ==
    /\ hcActive
    /\ hcPending = {}
    /\ hcActive' = FALSE
    /\ hcResult' = NoResults
    /\ UNCHANGED <<db, now, rpc, rproxy, rcause, rstatus, hcPending, cleanRes, cleaned>>
    /\ UNCHANGED <<probeVars, connVars, pipeVars, validVars, schedVars, extVars, fwdVars, codecVars, socksVars, countVars, replyVars, weightVars>>

\* cleanupProxiesFromDB: one Update transaction
cleanupProxiesFromDB(d, t) ==
    [db |-> Delete(d, keysToDelete(d, t)), deletedCount |-> Cardinality(keysToDelete(d, t))]

Cleanup ==
    /\ db' = cleanupProxiesFromDB(db, now).db
    /\ cleanRes' = [ran |-> TRUE, deleted |-> cleanupProxiesFromDB(db, now).deletedCount,
                    now |-> now]
    /\ UNCHANGED <<now, rpc, rproxy, rcause, rstatus, hcActive, hcPending, hcResult, cleaned>>
    /\ UNCHANGED <<probeVars, connVars, pipeVars, validVars, schedVars, extVars, fwdVars, codecVars, socksVars, countVars, replyVars, weightVars>>

\* the same pass, with the keys it deleted during a running health pass recorded
CleanupLogged ==
    /\ db' = cleanupProxiesFromDB(db, now).db
    /\ cleanRes' = [ran |-> TRUE, deleted |-> cleanupProxiesFromDB(db, now).deletedCount,
                    now |-> now]
    /\ cleaned' = IF hcActive THEN cleaned \cup keysToDelete(db, now) ELSE cleaned
    /\ UNCHANGED <<now, rpc, rproxy, rcause, rstatus, hcActive, hcPending, hcResult>>
    /\ UNCHANGED <<probeVars, connVars, pipeVars, validVars, schedVars, extVars, fwdVars, codecVars, socksVars, countVars, replyVars, weightVars>>

\* a selection failure answered as an internal error
SelectFailStatus_Internal == StatusInternalServerError

\* status written by handleRegularRequest when selectProxyFromDB fails
SelectFailStatus == StatusServiceUnavailable
\* status written when client.Do fails
DoFailStatus == StatusBadGateway
\* status written when the outgoing request cannot be built
NewRequestFailStatus == StatusInternalServerError

\* admission bound of the model: every usage counter is still below n
CountersBelow(d, n) == \A k \in DOMAIN d : d[k].kind = "bytes" => d[k].b < n

\* handleRegularRequest: selectProxyFromDB
ReqSelect ==
    /\ rpc = "idle"
    /\ CountersBelow(db, MaxCount)
    /\ \E viewErr \in BOOLEAN : \E res \in selectProxyFromDB(db, viewErr) :
         IF res.err # ""
         THEN /\ rstatus' = SelectFailStatus
              /\ rcause' = (IF viewErr THEN "store" ELSE "unavailable")
              /\ rproxy' = NoProxy
              /\ rpc' = "idle"
         ELSE /\ rproxy' = res.p
              /\ rpc' = "selected"
              /\ rstatus' = 0
              /\ rcause' = "none"
    /\ UNCHANGED <<db, now, hcActive, hcPending, hcResult, cleanRes, cleaned>>
    /\ UNCHANGED <<probeVars, connVars, pipeVars, validVars, schedVars, extVars, fwdVars, codecVars, socksVars, countVars, replyVars, weightVars>>

\* handleRegularRequest: build the request, client.Do, relay the response
ReqDo ==
    /\ rpc = "selected"
    /\ \E outcome \in {"newreq", "upstream", "ok"}, code \in {200, 500} :
         /\ rcause' = outcome
         /\ rstatus' = CASE outcome = "newreq" -> NewRequestFailStatus
                         [] outcome = "upstream" -> DoFailStatus
                         [] OTHER -> code
         /\ rpc' = IF outcome = "ok" THEN "count" ELSE "idle"
    /\ UNCHANGED <<db, now, rproxy, hcActive, hcPending, hcResult, cleanRes, cleaned>>
    /\ UNCHANGED <<probeVars, connVars, pipeVars, validVars, schedVars, extVars, fwdVars, codecVars, socksVars, countVars, replyVars, weightVars>>

\* handleRegularRequest: h.updateProxyCount(proxy)
ReqCount ==
    /\ rpc = "count"
    /\ db' = updateProxyCount(db, rproxy)
    /\ rpc' = "health"
    /\ UNCHANGED <<now, rproxy, rcause, rstatus, hcActive, hcPending, hcResult, cleanRes, cleaned>>
    /\ UNCHANGED <<probeVars, connVars, pipeVars, validVars, schedVars, extVars, fwdVars, codecVars, socksVars, countVars, replyVars, weightVars>>

\* handleRegularRequest: h.updateProxyHealth(proxy, true)
ReqHealth ==
    /\ rpc = "health"
    /\ db' = updateProxyHealth(db, rproxy, TRUE)
    /\ rpc' = "idle"
    /\ UNCHANGED <<now, rproxy, rcause, rstatus, hcActive, hcPending, hcResult, cleanRes, cleaned>>
    /\ UNCHANGED <<probeVars, connVars, pipeVars, validVars, schedVars, extVars, fwdVars, codecVars, socksVars, countVars, replyVars, weightVars>>

-----------------------------------------------------------------------------
(* ProbeSpec: determineConnectionProtocol *)

\* the checkers table
Priority(l) == CASE l = "socks5" -> 1 [] l = "http" -> 2 [] OTHER -> 3

NoResult == [protocol |-> "", priority |-> 0]
NoReturn == [label |-> "", err |-> FALSE]

ProbeInit ==
    /\ peerOK \in SUBSET Labels
    /\ tcpOK \in BOOLEAN
    /\ ppc = [l \in Labels |-> "new"]
    /\ ctxDone = FALSE
    /\ timedOut = FALSE
    /\ resultChan = <<>>
    /\ chanClosedP = FALSE
    /\ bestResult = NoResult
    /\ dpc = "dial"
    /\ dret = NoReturn

\* net.DialTimeout, then the three goroutines and the closer are started
DetDial ==
    /\ dpc = "dial"
    /\ IF tcpOK
       THEN /\ dpc' = "collect"
            /\ ppc' = [l \in Labels |-> "start"]
            /\ dret' = dret
       ELSE /\ dpc' = "done"
            /\ dret' = [label |-> "", err |-> TRUE]
            /\ ppc' = ppc
    /\ UNCHANGED <<peerOK, tcpOK, ctxDone, timedOut, resultChan, chanClosedP, bestResult>>
    /\ UNCHANGED <<storeVars, connVars, pipeVars, validVars, schedVars, extVars, fwdVars, codecVars, socksVars, countVars, replyVars, weightVars>>

\* probe goroutine: the non-blocking look at ctx.Done() before dialing
ProbeStart(l) ==
    /\ ppc[l] = "start"
    /\ ppc' = [ppc EXCEPT ![l] = IF ctxDone THEN "done" ELSE "dial"]
    /\ UNCHANGED <<peerOK, tcpOK, ctxDone, timedOut, resultChan, chanClosedP,
                   bestResult, dpc, dret>>
    /\ UNCHANGED <<storeVars, connVars, pipeVars, validVars, schedVars, extVars, fwdVars, codecVars, socksVars, countVars, replyVars, weightVars>>

\* probe goroutine: d.DialContext(dialCtx, ...), which fails once ctx is done
ProbeDial(l) ==
    /\ ppc[l] = "dial"
    /\ ppc' = [ppc EXCEPT ![l] = IF ctxDone THEN "done" ELSE "check"]
    /\ UNCHANGED <<peerOK, tcpOK, ctxDone, timedOut, resultChan, chanClosedP,
                   bestResult, dpc, dret>>
    /\ UNCHANGED <<storeVars, connVars, pipeVars, validVars, schedVars, extVars, fwdVars, codecVars, socksVars, countVars, replyVars, weightVars>>

\* c.check(ctx, conn): the peer's answer races ctx.Done() and the read timer
checkOutcomes(answers, done) ==
    IF ~answers THEN {"no"}
    ELSE IF done THEN {"yes", "cancelled"}
    ELSE {"yes", "timeout"}

\* probe goroutine: run the checker
ProbeCheck(l) ==
    /\ ppc[l] = "check"
    /\ \E o \in checkOutcomes(l \in peerOK, ctxDone) :
         /\ ppc' = [ppc EXCEPT ![l] = IF o = "yes" THEN "report" ELSE "done"]
         /\ timedOut' = (timedOut \/ o = "timeout")
    /\ UNCHANGED <<peerOK, tcpOK, ctxDone, resultChan, chanClosedP, bestResult, dpc, dret>>
    /\ UNCHANGED <<storeVars, connVars, pipeVars, validVars, schedVars, extVars, fwdVars, codecVars, socksVars, countVars, replyVars, weightVars>>

\* resultChan := make(chan result, 3)
resultChanCap == 3

\* select { case resultChan <- r: cancel()  case <-ctx.Done(): }
\* the send case is ready while the buffer has room, the other once ctx is done
reportChoices(done, buf) ==
    (IF Len(buf) < resultChanCap THEN {"send"} ELSE {}) \cup (IF done THEN {"skip"} ELSE {})

\* probe goroutine: report a success
ProbeReport(l) ==
    /\ ppc[l] = "report"
    /\ \E c \in reportChoices(ctxDone, resultChan) :
         IF c = "send"
         THEN /\ resultChan' = Append(resultChan, [protocol |-> l, priority |-> Priority(l)])
              /\ ctxDone' = TRUE
         ELSE UNCHANGED <<resultChan, ctxDone>>
    /\ ppc' = [ppc EXCEPT ![l] = "done"]
    /\ UNCHANGED <<peerOK, tcpOK, timedOut, chanClosedP, bestResult, dpc, dret>>
    /\ UNCHANGED <<storeVars, connVars, pipeVars, validVars, schedVars, extVars, fwdVars, codecVars, socksVars, countVars, replyVars, weightVars>>

\* the overall 20 s deadline of the shared context
Deadline ==
    /\ dpc = "collect"
    /\ ~ctxDone
    /\ ctxDone' = TRUE
    /\ timedOut' = TRUE
    /\ UNCHANGED <<peerOK, tcpOK, ppc, resultChan, chanClosedP, bestResult, dpc, dret>>
    /\ UNCHANGED <<storeVars, connVars, pipeVars, validVars, schedVars, extVars, fwdVars, codecVars, socksVars, countVars, replyVars, weightVars>>

\* a closer whose wait never returns
probesJoined_Never(pp) == \E l \in {} : pp[l] = "done"

\* wg.Wait(): every probe goroutine has run its deferred wg.Done()
probesJoined(pp) == \A l \in Labels : pp[l] = "done"

\* closer goroutine: wg.Wait(); close(resultChan)
Closer ==
    /\ dpc = "collect"
    /\ ~chanClosedP
    /\ probesJoined(ppc)
    /\ chanClosedP' = TRUE
    /\ UNCHANGED <<peerOK, tcpOK, ppc, ctxDone, timedOut, resultChan, bestResult, dpc, dret>>
    /\ UNCHANGED <<storeVars, connVars, pipeVars, validVars, schedVars, extVars, fwdVars, codecVars, socksVars, countVars, replyVars, weightVars>>

\* the comparison in the collector loop
better(r, best) == best = NoResult \/ r.priority < best.priority

\* collector: one iteration of for r := range resultChan
Collect ==
    /\ dpc = "collect"
    /\ resultChan # <<>>
    /\ bestResult' = IF better(Head(resultChan), bestResult) THEN Head(resultChan) ELSE bestResult
    /\ resultChan' = Tail(resultChan)
    /\ UNCHANGED <<peerOK, tcpOK, ppc, ctxDone, timedOut, chanClosedP, dpc, dret>>
    /\ UNCHANGED <<storeVars, connVars, pipeVars, validVars, schedVars, extVars, fwdVars, codecVars, socksVars, countVars, replyVars, weightVars>>

\* the prober returning no label when no probe reported
FallbackLabel_Empty == NoResult.protocol

\* return "http", nil: the label when TCP connected and no probe reported
FallbackLabel == "http"

\* collector: the channel is closed and drained; return
DetReturn ==
    /\ dpc = "collect"
    /\ resultChan = <<>>
    /\ chanClosedP
    /\ dret' = [label |-> IF bestResult # NoResult THEN bestResult.protocol ELSE FallbackLabel,
                err |-> FALSE]
    /\ dpc' = "done"
    /\ ctxDone' = TRUE
    /\ UNCHANGED <<peerOK, tcpOK, ppc, timedOut, resultChan, chanClosedP, bestResult>>
    /\ UNCHANGED <<storeVars, connVars, pipeVars, validVars, schedVars, extVars, fwdVars, codecVars, socksVars, countVars, replyVars, weightVars>>

-----------------------------------------------------------------------------
(* ConnSpec: handleConnect and the tunnel copiers *)

Sides == {"client", "upstream"}
Copiers == {"c2t", "t2c"}

\* http.ResponseWriter.WriteHeader: only the first call reaches the client
WriteHeader(cur, code) == IF cur = 0 THEN code ELSE cur

\* net.Conn.Close: the call is counted; an open socket becomes closed
CloseSock(sk, side) == [sk EXCEPT ![side] = "closed"]
CountClose(cc, side) == [cc EXCEPT ![side] = cc[side] + 1]

\* hijackClientToTarget(clientConn, targetConn) / hijackTargetToClient(targetConn, clientConn)
CopierSrc(c) == IF c = "c2t" THEN "client" ELSE "upstream"
CopierDst(c) == IF c = "c2t" THEN "upstream" ELSE "client"

\* in-memory lists a ProxyHandler can be built with
MemProxy(port) ==
    [IP |-> "1.2.3.4", Port |-> port, Protocol |-> "http", Disable |-> FALSE, Updated |-> 1]
MemLists == {{}, {MemProxy("80")}, {MemProxy("80"), MemProxy("81")}}

\* a connection as the server hands it to the handler
NewConn ==
    /\ hpc = "start"
    /\ wStatus = 0
    /\ sock = [client |-> "server", upstream |-> "none"]
    /\ closeCalls = [s \in Sides |-> 0]
    /\ cpc = [c \in Copiers |-> "idle"]
    /\ eof = [s \in Sides |-> FALSE]
    /\ tunnelOpen = FALSE
    /\ dialAttempts = 0
    /\ recovered = FALSE

ConnInit == hProxies \in MemLists /\ NewConn

\* the server accepts the next CONNECT request on a new connection
ConnAccept ==
    /\ hpc = "done"
    /\ CountersBelow(db, MaxCount)
    /\ hpc' = "start"
    /\ wStatus' = 0
    /\ sock' = [client |-> "server", upstream |-> "none"]
    /\ closeCalls' = [s \in Sides |-> 0]
    /\ cpc' = [c \in Copiers |-> "idle"]
    /\ eof' = [s \in Sides |-> FALSE]
    /\ tunnelOpen' = FALSE
    /\ dialAttempts' = 0
    /\ recovered' = FALSE
    /\ UNCHANGED <<db, hProxies>>
    /\ UNCHANGED <<storeRest, probeVars, pipeVars, validVars, schedVars, extVars, fwdVars, codecVars, socksVars, countVars, replyVars, weightVars>>

\* handleConnect: w.WriteHeader(http.StatusOK), before anything is dialed
ConnStart ==
    /\ hpc = "start"
    /\ wStatus' = WriteHeader(wStatus, StatusOK)
    /\ hpc' = "transport"
    /\ UNCHANGED <<db, hProxies, sock, closeCalls, cpc, eof, tunnelOpen>>
    /\ UNCHANGED connHist
    /\ UNCHANGED <<storeRest, probeVars, pipeVars, validVars, schedVars, extVars, fwdVars, codecVars, socksVars, countVars, replyVars, weightVars>>

\* getRandomTransport(3): builds a Transport, never returns an error
getRandomTransportErr == FALSE

\* handleConnect: transport, err := h.getRandomTransport(3)
ConnTransport ==
    /\ hpc = "transport"
    /\ IF getRandomTransportErr
       THEN /\ wStatus' = WriteHeader(wStatus, StatusBadGateway)
            /\ hpc' = "done"
       ELSE /\ wStatus' = wStatus
            /\ hpc' = "dial"
    /\ UNCHANGED <<db, hProxies, sock, closeCalls, cpc, eof, tunnelOpen>>
    /\ UNCHANGED connHist
    /\ UNCHANGED <<storeRest, probeVars, pipeVars, validVars, schedVars, extVars, fwdVars, codecVars, socksVars, countVars, replyVars, weightVars>>

\* transport.Dial("tcp", r.URL.Host).  getRandomTransport sets DialContext only,
\* so the Dial field it calls is nil and the call faults ("panic"); "err" and
\* "ok" are the outcomes of a transport whose Dial reaches the upstream.
DialOutcomes == {"panic", "err", "ok"}

\* handleConnect: dial the target; a fault is caught by the deferred recover
ConnDial ==
    /\ hpc = "dial"
    /\ \E o \in DialOutcomes :
         CASE o = "panic" ->
                /\ wStatus' = WriteHeader(wStatus, StatusInternalServerError)
                /\ hpc' = "done"
                /\ sock' = sock
                /\ recovered' = TRUE
           [] o = "err" ->
                /\ wStatus' = WriteHeader(wStatus, StatusBadGateway)
                /\ hpc' = "done"
                /\ sock' = sock
                /\ recovered' = recovered
           [] OTHER ->
                /\ wStatus' = wStatus
                /\ hpc' = "account"
                /\ sock' = [sock EXCEPT !.upstream = "open"]
                /\ recovered' = recovered
    /\ dialAttempts' = dialAttempts + 1
    /\ UNCHANGED <<db, hProxies, closeCalls, cpc, eof, tunnelOpen>>
    /\ UNCHANGED <<storeRest, probeVars, pipeVars, validVars, schedVars, extVars, fwdVars, codecVars, socksVars, countVars, replyVars, weightVars>>

\* handleConnect: h.updateProxyCount(h.selectProxy()); h.updateProxyHealth(h.selectProxy(), true)
\* selectProxy returns nil for an empty list and proxy.Count++ then faults
ConnAccount ==
    /\ hpc = "account"
    /\ IF hProxies = {}
       THEN /\ wStatus' = WriteHeader(wStatus, StatusInternalServerError)
            /\ hpc' = "done"
            /\ db' = db
            /\ recovered' = TRUE
       ELSE /\ \E p \in hProxies, q \in hProxies :
                 db' = updateProxyHealth(updateProxyCount(db, p), q, TRUE)
            /\ wStatus' = wStatus
            /\ hpc' = "hijack"
            /\ recovered' = recovered
    /\ dialAttempts' = dialAttempts
    /\ UNCHANGED <<hProxies, sock, closeCalls, cpc, eof, tunnelOpen>>
    /\ UNCHANGED <<storeRest, probeVars, pipeVars, validVars, schedVars, extVars, fwdVars, codecVars, socksVars, countVars, replyVars, weightVars>>

\* handleConnect: w.(http.Hijacker), hijacker.Hijack(), start both copiers
ConnHijack ==
    /\ hpc = "hijack"
    /\ \E o \in {"unsupported", "err", "ok"} :
         CASE o = "unsupported" ->
                /\ wStatus' = WriteHeader(wStatus, StatusInternalServerError)
                /\ sock' = CloseSock(sock, "upstream")
                /\ closeCalls' = CountClose(closeCalls, "upstream")
                /\ hpc' = "done"
                /\ UNCHANGED <<cpc, tunnelOpen>>
           [] o = "err" ->
                /\ sock' = CloseSock(sock, "upstream")
                /\ closeCalls' = CountClose(closeCalls, "upstream")
                /\ hpc' = "done"
                /\ UNCHANGED <<wStatus, cpc, tunnelOpen>>
           [] OTHER ->
                /\ sock' = [sock EXCEPT !.client = "open"]
                /\ cpc' = [c \in Copiers |-> "copy"]
                /\ tunnelOpen' = TRUE
                /\ hpc' = "wait"
                /\ UNCHANGED <<wStatus, closeCalls>>
    /\ UNCHANGED <<db, hProxies, eof>>
    /\ UNCHANGED connHist
    /\ UNCHANGED <<storeRest, probeVars, pipeVars, validVars, schedVars, extVars, fwdVars, codecVars, socksVars, countVars, replyVars, weightVars>>

\* a peer ends its stream
PeerEOF(s) ==
    /\ hpc = "wait"
    /\ ~eof[s]
    /\ eof' = [eof EXCEPT ![s] = TRUE]
    /\ UNCHANGED <<db, hpc, wStatus, hProxies, sock, closeCalls, cpc, tunnelOpen>>
    /\ UNCHANGED connHist
    /\ UNCHANGED <<storeRest, probeVars, pipeVars, validVars, schedVars, extVars, fwdVars, codecVars, socksVars, countVars, replyVars, weightVars>>

\* io.Copy(dst, src): the pending src.Read returns at EOF or when src is closed locally
readReturns(c, sk, e) ==
    \/ e[CopierSrc(c)]
    \/ sk[CopierSrc(c)] = "closed"

\* io.Copy(dst, src) returns: its read ended, or a write to the closed dst failed
copyReturns(c, sk, e) ==
    \/ readReturns(c, sk, e)
    \/ sk[CopierDst(c)] = "closed"

\* both copiers closing the client socket
copierCloses_Client(c) == "client"

\* each copier closing the socket it reads from
copierCloses_Source(c) == CopierSrc(c)

\* the socket a copier closes in its deferred function
copierCloses(c) == CopierDst(c)

\* the copier of the other direction
OtherCopier(c) == IF c = "c2t" THEN "t2c" ELSE "c2t"

\* copier goroutine: io.Copy returns, or faults and is recovered
CopierReturn(c) ==
    /\ cpc[c] = "copy"
    /\ copyReturns(c, sock, eof)
    /\ cpc' = [cpc EXCEPT ![c] = "closing"]
    /\ UNCHANGED <<db, hpc, wStatus, hProxies, sock, closeCalls, eof, tunnelOpen>>
    /\ UNCHANGED connHist
    /\ UNCHANGED <<storeRest, probeVars, pipeVars, validVars, schedVars, extVars, fwdVars, codecVars, socksVars, countVars, replyVars, weightVars>>

\* copier goroutine: the deferred Close of its destination
CopierClose(c) ==
    /\ cpc[c] = "closing"
    /\ sock' = CloseSock(sock, copierCloses(c))
    /\ closeCalls' = CountClose(closeCalls, copierCloses(c))
    /\ cpc' = [cpc EXCEPT ![c] = "done"]
    /\ UNCHANGED <<db, hpc, wStatus, hProxies, eof, tunnelOpen>>
    /\ UNCHANGED connHist
    /\ UNCHANGED <<storeRest, probeVars, pipeVars, validVars, schedVars, extVars, fwdVars, codecVars, socksVars, countVars, replyVars, weightVars>>

\* handleConnect: wg.Wait() returns
ConnWait ==
    /\ hpc = "wait"
    /\ \A c \in Copiers : cpc[c] = "done"
    /\ hpc' = "closeClient"
    /\ UNCHANGED <<db, wStatus, hProxies, sock, closeCalls, cpc, eof, tunnelOpen>>
    /\ UNCHANGED connHist
    /\ UNCHANGED <<storeRest, probeVars, pipeVars, validVars, schedVars, extVars, fwdVars, codecVars, socksVars, countVars, replyVars, weightVars>>

\* handleConnect: clientConn.Close()
ConnCloseClient ==
    /\ hpc = "closeClient"
    /\ sock' = CloseSock(sock, "client")
    /\ closeCalls' = CountClose(closeCalls, "client")
    /\ hpc' = "closeUpstream"
    /\ UNCHANGED <<db, wStatus, hProxies, cpc, eof, tunnelOpen>>
    /\ UNCHANGED connHist
    /\ UNCHANGED <<storeRest, probeVars, pipeVars, validVars, schedVars, extVars, fwdVars, codecVars, socksVars, countVars, replyVars, weightVars>>

\* handleConnect: conn.Close()
ConnCloseUpstream ==
    /\ hpc = "closeUpstream"
    /\ sock' = CloseSock(sock, "upstream")
    /\ closeCalls' = CountClose(closeCalls, "upstream")
    /\ hpc' = "done"
    /\ UNCHANGED <<db, wStatus, hProxies, cpc, eof, tunnelOpen>>
    /\ UNCHANGED connHist
    /\ UNCHANGED <<storeRest, probeVars, pipeVars, validVars, schedVars, extVars, fwdVars, codecVars, socksVars, countVars, replyVars, weightVars>>

-----------------------------------------------------------------------------
(* PipeSpec: gatherProxies *)

NumTasks == 3     \* validation goroutines started by the extractors of one run
ChanCap == 2      \* capacity of proxiesChan, scaled down from 500
Tasks == 1..NumTasks

\* the candidate an extractor hands to its validation goroutine
Candidate(ip, port, hint) ==
    [IP |-> ip, Port |-> port, Protocol |-> hint, Disable |-> FALSE, Updated |-> 0]

PipeInit ==
    /\ tpc = [t \in Tasks |-> "validating"]
    /\ trec = [t \in Tasks |-> Candidate("1.2.3.4", "80", "http")]
    /\ chanBuf = <<>>
    /\ chanClosed = FALSE
    /\ sent = {}
    /\ observed = <<>>
    /\ wpc = "running"
    /\ gpc = "fetching"
    /\ newProxyCount = 0
    /\ updateCount = 0

\* a validation goroutine sending whatever the verdict
afterValidProxy_AlwaysSend(ok) == IF ok THEN "sending" ELSE "sending"

\* validation goroutine: the body of if proxy.ValidProxy(p) is entered only on true
afterValidProxy(ok) == IF ok THEN "sending" ELSE "done"

\* validation goroutine: if proxy.ValidProxy(p) { ... }
TaskValidate(t) ==
    /\ tpc[t] = "validating"
    /\ \E probe \in StoreProbes, st \in Statuses :
         LET r == ValidProxy(trec[t], probe, st, now) IN
         /\ trec' = [trec EXCEPT ![t] = r.p]
         /\ tpc' = [tpc EXCEPT ![t] = afterValidProxy(r.ok)]
    /\ UNCHANGED <<db, chanBuf, chanClosed, sent, observed, wpc, gpc,
                   newProxyCount, updateCount>>
    /\ UNCHANGED <<storeRest, probeVars, connVars, validVars, schedVars, extVars, fwdVars, codecVars, socksVars, countVars, replyVars, weightVars>>

\* validation goroutine: proxiesChan <- p, blocking while the buffer is full;
\* a send on a closed channel panics
TaskSend(t) ==
    /\ tpc[t] = "sending"
    /\ IF chanClosed
       THEN /\ tpc' = [tpc EXCEPT ![t] = "panic"]
            /\ UNCHANGED <<chanBuf, sent>>
       ELSE /\ Len(chanBuf) < ChanCap
            /\ chanBuf' = Append(chanBuf, [id |-> t, p |-> trec[t]])
            /\ sent' = sent \cup {t}
            /\ tpc' = [tpc EXCEPT ![t] = "done"]
    /\ UNCHANGED <<db, trec, chanClosed, observed, wpc, gpc, newProxyCount, updateCount>>
    /\ UNCHANGED <<storeRest, probeVars, connVars, validVars, schedVars, extVars, fwdVars, codecVars, socksVars, countVars, replyVars, weightVars>>

\* what a receive leaves in the channel
afterRecv(buf) == Tail(buf)

\* the writer finding no key in the store
keyFound_Never(d, p) == String(p) \in {}

\* the writer's txn.Get(key): nil error, the key exists
keyFound(d, p) == String(p) \in DOMAIN d

\* writer goroutine: one iteration of for p := range proxiesChan
WriterRecv ==
    /\ wpc = "running"
    /\ chanBuf # <<>>
    /\ LET item == Head(chanBuf) IN
         /\ observed' = Append(observed, item.id)
         /\ IF keyFound(db, item.p)
            THEN /\ updateCount' = updateCount + 1
                 /\ newProxyCount' = newProxyCount
            ELSE /\ newProxyCount' = newProxyCount + 1
                 /\ updateCount' = updateCount
         /\ db' = WriterTxn(db, item.p)
    /\ chanBuf' = afterRecv(chanBuf)
    /\ UNCHANGED <<tpc, trec, chanClosed, sent, wpc, gpc>>
    /\ UNCHANGED <<storeRest, probeVars, connVars, validVars, schedVars, extVars, fwdVars, codecVars, socksVars, countVars, replyVars, weightVars>>

\* writer goroutine: the range loop ends on a closed, drained channel
WriterExit ==
    /\ wpc = "running"
    /\ chanBuf = <<>>
    /\ chanClosed
    /\ wpc' = "done"
    /\ UNCHANGED <<db, tpc, trec, chanBuf, chanClosed, sent, observed, gpc,
                   newProxyCount, updateCount>>
    /\ UNCHANGED <<storeRest, probeVars, connVars, validVars, schedVars, extVars, fwdVars, codecVars, socksVars, countVars, replyVars, weightVars>>

\* c.Wait() never returning
extractorsJoined_Never(tp) == \E t \in {} : tp[t] = "done"

\* gatherProxies closing the channel without waiting for the extractors
extractorsJoined_NoWait(tp) == \A t \in {} : tp[t] = "done"

\* c.Wait() in gatherProxies: every Extractor call has returned, each after the
\* wg.Wait() that joins its validation goroutines
extractorsJoined(tp) == \A t \in Tasks : tp[t] = "done"

\* gatherProxies: c.Wait() returns when every extractor has, then close(proxiesChan)
GatherClose ==
    /\ gpc = "fetching"
    /\ extractorsJoined(tpc)
    /\ chanClosed' = TRUE
    /\ gpc' = "closed"
    /\ UNCHANGED <<db, tpc, trec, chanBuf, sent, observed, wpc, newProxyCount, updateCount>>
    /\ UNCHANGED <<storeRest, probeVars, connVars, validVars, schedVars, extVars, fwdVars, codecVars, socksVars, countVars, replyVars, weightVars>>

\* gatherProxies returning without joining the writer
writerJoined_NoWait(w) == TRUE

\* wg.Wait() in gatherProxies: the writer goroutine has returned
writerJoined(w) == w = "done"

\* gatherProxies: wg.Wait() returns, log the counts, return
GatherReturn ==
    /\ gpc = "closed"
    /\ writerJoined(wpc)
    /\ gpc' = "returned"
    /\ UNCHANGED <<db, tpc, trec, chanBuf, chanClosed, sent, observed, wpc,
                   newProxyCount, updateCount>>
    /\ UNCHANGED <<storeRest, probeVars, connVars, validVars, schedVars, extVars, fwdVars, codecVars, socksVars, countVars, replyVars, weightVars>>

-----------------------------------------------------------------------------
(* ValidSpec: ValidProxy on bounded inputs *)

ValidIPs == {"", "0.0.0.0", "127.0.0.1", "1.2.3.4"}
ValidHints == {"", "http", "socks5"}
ValidTimes == {2, 3}

ValidInit ==
    /\ vin \in [p : [IP : ValidIPs, Port : Ports, Protocol : ValidHints,
                     Disable : BOOLEAN, Updated : {0, 1}],
                probe : ProbeResults, status : Statuses, t : ValidTimes]
    /\ vpc = "call"
    /\ vout = [ok |-> FALSE, p |-> NoProxy]

\* one call of ValidProxy
Validate ==
    /\ vpc = "call"
    /\ vout' = ValidProxy(vin.p, vin.probe, vin.status, vin.t)
    /\ vpc' = "done"
    /\ vin' = vin
    /\ UNCHANGED <<storeVars, probeVars, connVars, pipeVars, schedVars, extVars, fwdVars, codecVars, socksVars, countVars, replyVars, weightVars>>

-----------------------------------------------------------------------------
(* CodecSpec: DumpJSON and LoadFromJSON on bounded records *)

CodecTimes == {0, 1, 73}

CodecInit ==
    /\ jrec \in [IP : ValidIPs, Port : Ports, Protocol : ValidHints,
                  Disable : BOOLEAN, Updated : CodecTimes]
    /\ jpc = "encode"
    /\ jval = Bytes(0)
    /\ jdec = [err |-> FALSE, p |-> NoProxy]
    /\ jval2 = Bytes(0)

\* v := p.DumpJSON()
CodecEncode ==
    /\ jpc = "encode"
    /\ jval' = DumpJSON(jrec)
    /\ jpc' = "decode"
    /\ UNCHANGED <<jrec, jdec, jval2>>
    /\ UNCHANGED <<storeVars, probeVars, connVars, pipeVars, validVars, schedVars, extVars, fwdVars, socksVars, countVars, replyVars, weightVars>>

\* q, err := LoadFromJSON(v)
CodecDecode ==
    /\ jpc = "decode"
    /\ jdec' = LoadFromJSON(jval)
    /\ jpc' = "reencode"
    /\ UNCHANGED <<jrec, jval, jval2>>
    /\ UNCHANGED <<storeVars, probeVars, connVars, pipeVars, validVars, schedVars, extVars, fwdVars, socksVars, countVars, replyVars, weightVars>>

\* q.DumpJSON()
CodecReEncode ==
    /\ jpc = "reencode"
    /\ jval2' = DumpJSON(jdec.p)
    /\ jpc' = "done"
    /\ UNCHANGED <<jrec, jval, jdec>>
    /\ UNCHANGED <<storeVars, probeVars, connVars, pipeVars, validVars, schedVars, extVars, fwdVars, socksVars, countVars, replyVars, weightVars>>

-----------------------------------------------------------------------------
(* Socks5Spec: dialSOCKS5 up to the CONNECT request *)

\* the 12 bytes that precede an IPv4 address in its 16-byte form
v4InV6Prefix == <<0, 0, 0, 0, 0, 0, 0, 0, 0, 0, 255, 255>>

\* target hosts, each by what the string spells: the 4 octets of an IPv4
\* literal, the 16 bytes of an IPv6 literal, or the characters of a name
IPv4Hosts ==
    {[kind |-> "ipv4", b |-> <<a, b, 0, d>>] : a \in {1, 127, 192}, b \in {0, 168}, d \in {1, 254}}
IPv6Hosts ==
    {[kind |-> "ipv6", b |-> x] :
        x \in {<<0, 0, 0, 0, 0, 0, 0, 0, 0, 0, 0, 0, 0, 0, 0, 1>>,
               <<32, 1, 13, 184, 0, 0, 0, 0, 0, 0, 0, 0, 0, 0, 0, 1>>,
               v4InV6Prefix \o <<1, 2, 3, 4>>}}
NameHosts ==
    {[kind |-> "name", b |-> x] :
        x \in {<<97>>, <<97, 46, 105, 111>>,
               <<101, 120, 97, 109, 112, 108, 101, 46, 99, 111, 109>>}}
Hosts == IPv4Hosts \cup IPv6Hosts \cup NameHosts
TargetPorts == {80, 443, 8080}

\* credentials an upstream record can carry: none, or "u" / "pw"
Credentials == {[User |-> <<>>, Pass |-> <<>>], [User |-> <<117>>, Pass |-> <<112, 119>>]}

\* net.ParseIP: nil for a name, else the address in its 16-byte form, an IPv4
\* literal included
ParseIP(h) ==
    IF h.kind = "ipv4" THEN v4InV6Prefix \o h.b
    ELSE IF h.kind = "ipv6" THEN h.b
    ELSE <<>>

\* IP.To4: the last 4 bytes of an IPv4 address in either form, else nil
To4(ip) ==
    IF Len(ip) = 4 THEN ip
    ELSE IF Len(ip) = 16 /\ SubSeq(ip, 1, 12) = v4InV6Prefix THEN SubSeq(ip, 13, 16)
    ELSE <<>>

\* byte(x)
Byte(x) == x % 256

\* socks5SendConnect: the request it builds for host h and port
socks5SendConnect(h, port) ==
    LET ip == ParseIP(h)
        address == IF ip # <<>>
                   THEN IF Len(ip) = 16
                        THEN <<4>> \o ip
                        ELSE <<1>> \o To4(ip)
                   ELSE <<3, Byte(Len(h.b))>> \o h.b
    IN  <<5, 1, 0>> \o address \o <<Byte(port \div 256), Byte(port)>>

\* dialSOCKS5: authMethod
authMethod(px) == IF px.User # <<>> /\ px.Pass # <<>> THEN 2 ELSE 0

\* socks5AuthUsernamePassword: VER ULEN USER PLEN PASS
authReq(px) == <<1, Byte(Len(px.User))>> \o px.User \o <<Byte(Len(px.Pass))>> \o px.Pass

\* protocols a selected record can carry: the prober's labels, or none
UpstreamProtocols == {"", "http", "https", "socks5"}
Upstreams ==
    {[Protocol |-> l, User |-> c.User, Pass |-> c.Pass] : l \in UpstreamProtocols, c \in Credentials}

Socks5Init ==
    /\ s5addr \in [host : Hosts, port : TargetPorts]
    /\ s5proxy \in Upstreams
    /\ s5pc = "transport"
    /\ s5conn = "none"
    /\ s5wire = <<>>
    /\ s5req = <<>>
    /\ s5route = "none"

\* the case of switch proxy.Protocol that DialContext takes
routeOf(protocol) ==
    IF protocol = "http" THEN "http"
    ELSE IF protocol = "socks5" THEN "socks5"
    ELSE "direct"

\* createTransport: DialContext switches on proxy.Protocol; the default case
\* dials the target itself
TransportDial ==
    /\ s5pc = "transport"
    /\ s5route' = routeOf(s5proxy.Protocol)
    /\ IF routeOf(s5proxy.Protocol) = "http"
       THEN s5pc' = "httpdial" /\ s5conn' = s5conn
       ELSE IF routeOf(s5proxy.Protocol) = "socks5"
       THEN s5pc' = "dial" /\ s5conn' = s5conn
       ELSE \E ok \in BOOLEAN :
              IF ok THEN s5pc' = "connected" /\ s5conn' = "open"
                    ELSE s5pc' = "failed" /\ s5conn' = s5conn
    /\ UNCHANGED <<s5addr, s5proxy, s5wire, s5req>>
    /\ UNCHANGED <<storeVars, probeVars, connVars, pipeVars, validVars, schedVars, extVars, fwdVars, codecVars, countVars, replyVars, weightVars>>

\* dialHTTP: dial the upstream, write CONNECT addr, read the answer
DialHTTP ==
    /\ s5pc = "httpdial"
    /\ \E o \in {"dialerr", "ioerr", "refused", "established"} :
         CASE o = "dialerr" -> s5pc' = "failed" /\ s5conn' = s5conn
           [] o = "established" -> s5pc' = "connected" /\ s5conn' = "open"
           [] OTHER -> s5pc' = "failed" /\ s5conn' = "closed"
    /\ UNCHANGED <<s5addr, s5proxy, s5wire, s5req, s5route>>
    /\ UNCHANGED <<storeVars, probeVars, connVars, pipeVars, validVars, schedVars, extVars, fwdVars, codecVars, countVars, replyVars, weightVars>>

\* dialSOCKS5: dialer.DialContext to the upstream
S5Dial ==
    /\ s5pc = "dial"
    /\ \E ok \in BOOLEAN :
         IF ok THEN s5conn' = "open" /\ s5pc' = "greet"
               ELSE s5conn' = s5conn /\ s5pc' = "failed"
    /\ UNCHANGED <<s5addr, s5proxy, s5wire, s5req, s5route>>
    /\ UNCHANGED <<storeVars, probeVars, connVars, pipeVars, validVars, schedVars, extVars, fwdVars, codecVars, countVars, replyVars, weightVars>>

\* dialSOCKS5: write the greeting and read its two-byte answer
S5Greet ==
    /\ s5pc = "greet"
    /\ s5wire' = Append(s5wire, <<5, 1, authMethod(s5proxy)>>)
    /\ \E answer \in {"readerr", "badversion", "refused", "ok"} :
         IF answer = "ok"
         THEN /\ s5pc' = IF authMethod(s5proxy) = 2 THEN "auth" ELSE "connect"
              /\ s5conn' = s5conn
         ELSE /\ s5pc' = "failed"
              /\ s5conn' = "closed"
    /\ UNCHANGED <<s5addr, s5proxy, s5req, s5route>>
    /\ UNCHANGED <<storeVars, probeVars, connVars, pipeVars, validVars, schedVars, extVars, fwdVars, codecVars, countVars, replyVars, weightVars>>

\* dialSOCKS5: socks5AuthUsernamePassword
S5Auth ==
    /\ s5pc = "auth"
    /\ s5wire' = Append(s5wire, authReq(s5proxy))
    /\ \E ok \in BOOLEAN :
         IF ok THEN s5pc' = "connect" /\ s5conn' = s5conn
               ELSE s5pc' = "failed" /\ s5conn' = "closed"
    /\ UNCHANGED <<s5addr, s5proxy, s5req, s5route>>
    /\ UNCHANGED <<storeVars, probeVars, connVars, pipeVars, validVars, schedVars, extVars, fwdVars, codecVars, countVars, replyVars, weightVars>>

\* dialSOCKS5: socks5SendConnect(conn, addr)
S5SendConnect ==
    /\ s5pc = "connect"
    /\ s5req' = socks5SendConnect(s5addr.host, s5addr.port)
    /\ s5wire' = Append(s5wire, socks5SendConnect(s5addr.host, s5addr.port))
    /\ s5pc' = "response"
    /\ UNCHANGED <<s5addr, s5proxy, s5conn, s5route>>
    /\ UNCHANGED <<storeVars, probeVars, connVars, pipeVars, validVars, schedVars, extVars, fwdVars, codecVars, countVars, replyVars, weightVars>>

\* dialSOCKS5: socks5ReadConnectResponse(conn) and return
S5ReadResponse ==
    /\ s5pc = "response"
    /\ \E ok \in BOOLEAN :
         IF ok THEN s5pc' = "done" /\ s5conn' = s5conn
               ELSE s5pc' = "failed" /\ s5conn' = "closed"
    /\ UNCHANGED <<s5addr, s5proxy, s5wire, s5req, s5route>>
    /\ UNCHANGED <<storeVars, probeVars, connVars, pipeVars, validVars, schedVars, extVars, fwdVars, codecVars, countVars, replyVars, weightVars>>

-----------------------------------------------------------------------------
(* SchedSpec: main in its default mode and the cron scheduler *)

MaxInst == 2      \* calls of one task admitted at the same time

MaintTasks == {"health", "cleanup", "refresh"}

\* the startup calls in a different order
StartupCalls_RefreshFirst == <<"refresh", "health", "cleanup">>

\* main: checkAllProxiesHealth(); cleanupProxiesFromDB(); gatherProxies()
StartupCalls == <<"health", "cleanup", "refresh">>

Slots == 0..3     \* :00 of an even hour, :30, :00 of an odd hour, :30
NextSlot(s) == (s + 1) % 4

\* the entries added with AddFunc: "0 */1 * * *", "30 */1 * * *", "0 */2 * * *"
Due(s) ==
    {t \in MaintTasks :
        \/ t = "health" /\ s \in {0, 2}
        \/ t = "cleanup" /\ s \in {1, 3}
        \/ t = "refresh" /\ s = 0}

NoneRunning == [t \in MaintTasks |-> 0]

SchedInit ==
    /\ mpc = "call"
    /\ mi = 1
    /\ cronOn = FALSE
    /\ slot \in Slots
    /\ running = NoneRunning
    /\ startupLog = <<>>
    /\ fired = FALSE

\* main calls the next startup task
MainCall ==
    /\ mpc = "call"
    /\ running' = [running EXCEPT ![StartupCalls[mi]] = @ + 1]
    /\ mpc' = "in"
    /\ UNCHANGED <<mi, cronOn, slot, startupLog, fired>>
    /\ UNCHANGED <<storeVars, probeVars, connVars, pipeVars, validVars, extVars, fwdVars, codecVars, socksVars, countVars, replyVars, weightVars>>

\* the startup task returns to main
MainReturn ==
    /\ mpc = "in"
    /\ running' = [running EXCEPT ![StartupCalls[mi]] = @ - 1]
    /\ startupLog' = Append(startupLog, StartupCalls[mi])
    /\ IF mi = Len(StartupCalls)
       THEN mpc' = "cron" /\ mi' = mi
       ELSE mpc' = "call" /\ mi' = mi + 1
    /\ UNCHANGED <<cronOn, slot, fired>>
    /\ UNCHANGED <<storeVars, probeVars, connVars, pipeVars, validVars, extVars, fwdVars, codecVars, socksVars, countVars, replyVars, weightVars>>

\* main: c := cron.New(); three AddFunc; c.Start()
CronStart ==
    /\ mpc = "cron"
    /\ cronOn' = TRUE
    /\ mpc' = "list"
    /\ UNCHANGED <<mi, slot, running, startupLog, fired>>
    /\ UNCHANGED <<storeVars, probeVars, connVars, pipeVars, validVars, extVars, fwdVars, codecVars, socksVars, countVars, replyVars, weightVars>>

\* main: list and log the store, then block in select {}
MainList ==
    /\ mpc = "list"
    /\ mpc' = "blocked"
    /\ UNCHANGED <<mi, cronOn, slot, running, startupLog, fired>>
    /\ UNCHANGED <<storeVars, probeVars, connVars, pipeVars, validVars, extVars, fwdVars, codecVars, socksVars, countVars, replyVars, weightVars>>

\* half an hour passes while no scheduler is running
TimePasses ==
    /\ ~cronOn
    /\ slot' = NextSlot(slot)
    /\ UNCHANGED <<mpc, mi, cronOn, running, startupLog, fired>>
    /\ UNCHANGED <<storeVars, probeVars, connVars, pipeVars, validVars, extVars, fwdVars, codecVars, socksVars, countVars, replyVars, weightVars>>

\* the scheduler's timer: every due entry is started in a goroutine of its own
CronFire ==
    /\ cronOn
    /\ \A t \in Due(NextSlot(slot)) : running[t] < MaxInst
    /\ slot' = NextSlot(slot)
    /\ running' = [t \in MaintTasks |->
                      IF t \in Due(NextSlot(slot)) THEN running[t] + 1 ELSE running[t]]
    /\ fired' = TRUE
    /\ UNCHANGED <<mpc, mi, cronOn, startupLog>>
    /\ UNCHANGED <<storeVars, probeVars, connVars, pipeVars, validVars, extVars, fwdVars, codecVars, socksVars, countVars, replyVars, weightVars>>

\* a job started by the scheduler returns
JobReturn(t) ==
    /\ cronOn
    /\ running[t] > 0
    /\ running' = [running EXCEPT ![t] = @ - 1]
    /\ UNCHANGED <<mpc, mi, cronOn, slot, startupLog, fired>>
    /\ UNCHANGED <<storeVars, probeVars, connVars, pipeVars, validVars, extVars, fwdVars, codecVars, socksVars, countVars, replyVars, weightVars>>

-----------------------------------------------------------------------------
(* ExtractSpec: Extractor and its two extractors on one payload *)

\* port texts a payload can hold, as digit strings: "80", "70000", "8"
PayloadPorts == {<<8, 0>>, <<7, 0, 0, 0, 0>>, <<8>>}

Digit(d) ==
    CASE d = 0 -> "0" [] d = 1 -> "1" [] d = 2 -> "2" [] d = 3 -> "3" [] d = 4 -> "4"
      [] d = 5 -> "5" [] d = 6 -> "6" [] d = 7 -> "7" [] d = 8 -> "8" [] OTHER -> "9"

\* the matched text of a port
RECURSIVE PortString(_)
PortString(ds) == IF ds = <<>> THEN "" ELSE Digit(Head(ds)) \o PortString(Tail(ds))

\* strconv.Atoi on a string of digits
RECURSIVE Atoi(_)
Atoi(ds) == IF ds = <<>> THEN 0 ELSE Atoi(SubSeq(ds, 1, Len(ds) - 1)) * 10 + ds[Len(ds)]

\* isValidPort of extractAndValidateProxies
isValidPort(ds) == Atoi(ds) > 0 /\ Atoi(ds) <= 65535

\* portReg of extractProxiesFromHTMLTable: ^(\d{2,5})$
portReg(ds) == Len(ds) >= 2 /\ Len(ds) <= 5

\* the extractors slice of Extractor, in order
Extractors == <<"text", "table">>

\* the candidates an extractor builds from the payload and hands to ValidProxy
candidatesOf(e, b) ==
    IF e = "text"
    THEN {Candidate("1.2.3.4", PortString(ds), "http") : ds \in {x \in b.text : isValidPort(x)}}
    ELSE {Candidate("1.2.3.4", PortString(ds), "") : ds \in {x \in b.table : portReg(x)}}

\* Extractor running every extractor whatever the earlier ones found
stopAfter_Never(ok) == ok /\ ~ok

\* Extractor: if ok { break }
stopAfter(ok) == ok

NoCounts == [e \in {"text", "table"} |-> 0]

ExtInit ==
    /\ body \in [text : SUBSET PayloadPorts, table : SUBSET PayloadPorts]
    /\ epc = [i |-> 1, phase |-> "scan"]
    /\ epending = {}
    /\ ecount = NoCounts
    /\ ran = {}
    /\ handed = {}
    /\ sentOut = {}

\* an extractor is called: it scans the payload and starts one validation
\* goroutine per candidate
ExtScan ==
    /\ epc.phase = "scan"
    /\ LET e == Extractors[epc.i] IN
         /\ ran' = ran \cup {e}
         /\ epending' = candidatesOf(e, body)
         /\ handed' = handed \cup {[by |-> e, p |-> c] : c \in candidatesOf(e, body)}
    /\ epc' = [epc EXCEPT !.phase = "wait"]
    /\ UNCHANGED <<body, ecount, sentOut>>
    /\ UNCHANGED <<storeVars, probeVars, connVars, pipeVars, validVars, schedVars, fwdVars, codecVars, socksVars, countVars, replyVars, weightVars>>

\* validation goroutine: if proxy.ValidProxy(p) { proxiesChan <- p; count++ }
ExtValidate ==
    /\ epc.phase = "wait"
    /\ \E c \in epending, probe \in StoreProbes, st \in Statuses :
         LET r == ValidProxy(c, probe, st, now) IN
         /\ epending' = epending \ {c}
         /\ IF r.ok
            THEN /\ sentOut' = sentOut \cup {r.p}
                 /\ ecount' = [ecount EXCEPT ![Extractors[epc.i]] = @ + 1]
            ELSE UNCHANGED <<sentOut, ecount>>
    /\ UNCHANGED <<body, epc, ran, handed>>
    /\ UNCHANGED <<storeVars, probeVars, connVars, pipeVars, validVars, schedVars, fwdVars, codecVars, socksVars, countVars, replyVars, weightVars>>

\* the extractor's wg.Wait returns; it reports totalProxyCount > 0 and Extractor
\* goes on to the next extractor or stops
ExtReturn ==
    /\ epc.phase = "wait"
    /\ epending = {}
    /\ epc' = IF stopAfter(ecount[Extractors[epc.i]] > 0) \/ epc.i = Len(Extractors)
              THEN [epc EXCEPT !.phase = "done"]
              ELSE [i |-> epc.i + 1, phase |-> "scan"]
    /\ UNCHANGED <<body, epending, ecount, ran, handed, sentOut>>
    /\ UNCHANGED <<storeVars, probeVars, connVars, pipeVars, validVars, schedVars, fwdVars, codecVars, socksVars, countVars, replyVars, weightVars>>

-----------------------------------------------------------------------------
(* FwdSpec: the headers of a regular request on their way to the upstream *)

HeaderNames ==
    {"Proxy-Connection", "Proxy-Authenticate", "Proxy-Authorization",
     "X-Forwarded-For", "Accept", "Content-Length"}

\* values a client can send under a header name
HeaderValues(n) ==
    CASE n = "Accept" -> {<<"a">>, <<"a", "b">>}
      [] n = "Content-Length" -> {<<"5">>}
      [] n = "X-Forwarded-For" -> {<<"9.9.9.9">>}
      [] OTHER -> {<<"x">>}

Methods == {"GET", "POST"}
RemoteAddr == "10.0.0.1:5555"
NoHeaders == [n \in {} |-> <<>>]

\* http.Header.Del / Add / Set
HeaderDel(h, k) == [n \in DOMAIN h \ {k} |-> h[n]]
HeaderAdd(h, k, v) ==
    [n \in DOMAIN h \cup {k} |->
        IF n # k THEN h[n] ELSE IF k \in DOMAIN h THEN Append(h[k], v) ELSE <<v>>]
HeaderSet(h, k, v) == [n \in DOMAIN h \cup {k} |-> IF n = k THEN <<v>> ELSE h[n]]

\* for _, value := range values { req.Header.Add(key, value) }
RECURSIVE AddValues(_, _, _)
AddValues(h, k, vs) ==
    IF vs = <<>> THEN h ELSE AddValues(HeaderAdd(h, k, Head(vs)), k, Tail(vs))

\* for key, values := range r.Header { ... }
RECURSIVE CopyHeaders(_, _, _)
CopyHeaders(dst, src, keys) ==
    IF keys = {} THEN dst
    ELSE LET k == CHOOSE x \in keys : TRUE
         IN CopyHeaders(AddValues(dst, k, src[k]), src, keys \ {k})

\* ServeHTTP: the three r.Header.Del calls
stripHopHeaders(h) ==
    HeaderDel(HeaderDel(HeaderDel(h, "Proxy-Connection"), "Proxy-Authenticate"),
              "Proxy-Authorization")

\* net/http writes these from the Request's fields, never from its Header
reqWriteExcludeHeader ==
    {"Host", "User-Agent", "Content-Length", "Transfer-Encoding", "Trailer"}

\* client.Do: the header lines the transport writes for the outgoing request,
\* which http.NewRequestWithContext(.., nil) built without a body: the length
\* line comes from the request's ContentLength field, which is 0
wireHeaders(h, m) ==
    LET kept == [n \in DOMAIN h \ reqWriteExcludeHeader |-> h[n]] IN
    IF m \in {"POST", "PUT", "PATCH"}
    THEN HeaderSet(kept, "Content-Length", "0")
    ELSE kept

FwdInit ==
    /\ fpc = "serve"
    /\ method \in Methods
    /\ \E S \in SUBSET HeaderNames :
         clientHdr \in {f \in [S -> UNION {HeaderValues(n) : n \in HeaderNames}] :
                          \A n \in S : f[n] \in HeaderValues(n)}
    /\ rHdr = clientHdr
    /\ reqHdr = NoHeaders
    /\ wire = NoHeaders

\* ServeHTTP: strip the proxy-hop headers and dispatch
FwdServe ==
    /\ fpc = "serve"
    /\ rHdr' = stripHopHeaders(rHdr)
    /\ fpc' = "regular"
    /\ UNCHANGED <<method, clientHdr, reqHdr, wire>>
    /\ UNCHANGED <<storeVars, probeVars, connVars, pipeVars, validVars, schedVars, extVars, codecVars, socksVars, countVars, replyVars, weightVars>>

\* handleRegularRequest: select, build the outgoing request, copy the headers,
\* set X-Forwarded-For; a failed selection or construction ends the request
FwdBuild ==
    /\ fpc = "regular"
    /\ \E o \in {"unavailable", "newreq", "ok"} :
         IF o = "ok"
         THEN /\ reqHdr' = HeaderSet(CopyHeaders(NoHeaders, rHdr, DOMAIN rHdr),
                                     "X-Forwarded-For", RemoteAddr)
              /\ fpc' = "do"
         ELSE /\ reqHdr' = reqHdr
              /\ fpc' = "failed"
    /\ UNCHANGED <<method, clientHdr, rHdr, wire>>
    /\ UNCHANGED <<storeVars, probeVars, connVars, pipeVars, validVars, schedVars, extVars, codecVars, socksVars, countVars, replyVars, weightVars>>

\* handleRegularRequest: client.Do(req) writes the request to the upstream
FwdDo ==
    /\ fpc = "do"
    /\ wire' = wireHeaders(reqHdr, method)
    /\ fpc' = "sent"
    /\ UNCHANGED <<method, clientHdr, rHdr, reqHdr>>
    /\ UNCHANGED <<storeVars, probeVars, connVars, pipeVars, validVars, schedVars, extVars, codecVars, socksVars, countVars, replyVars, weightVars>>

-----------------------------------------------------------------------------
(* Specifications.  Each one runs one part of the program; the variables of *)
(* the other parts rest at a fixed value.                                   *)

ProbeIdle ==
    /\ peerOK = {}
    /\ tcpOK = FALSE
    /\ ppc = [l \in Labels |-> "new"]
    /\ ctxDone = FALSE
    /\ timedOut = FALSE
    /\ resultChan = <<>>
    /\ chanClosedP = FALSE
    /\ bestResult = NoResult
    /\ dpc = "idle"
    /\ dret = NoReturn

ConnIdle ==
    /\ hpc = "idle"
    /\ wStatus = 0
    /\ hProxies = {}
    /\ sock = [client |-> "server", upstream |-> "none"]
    /\ closeCalls = [s \in Sides |-> 0]
    /\ cpc = [c \in Copiers |-> "idle"]
    /\ eof = [s \in Sides |-> FALSE]
    /\ tunnelOpen = FALSE
    /\ dialAttempts = 0
    /\ recovered = FALSE

PipeIdle ==
    /\ tpc = [t \in Tasks |-> "done"]
    /\ trec = [t \in Tasks |-> NoProxy]
    /\ chanBuf = <<>>
    /\ chanClosed = FALSE
    /\ sent = {}
    /\ observed = <<>>
    /\ wpc = "idle"
    /\ gpc = "idle"
    /\ newProxyCount = 0
    /\ updateCount = 0

ValidIdle ==
    /\ vin = [p |-> NoProxy, probe |-> [err |-> TRUE, label |-> ""], status |-> 0, t |-> 0]
    /\ vpc = "idle"
    /\ vout = [ok |-> FALSE, p |-> NoProxy]

SchedIdle ==
    /\ mpc = "idle"
    /\ mi = 1
    /\ cronOn = FALSE
    /\ slot = 0
    /\ running = NoneRunning
    /\ startupLog = <<>>
    /\ fired = FALSE

ExtIdle ==
    /\ body = [text |-> {}, table |-> {}]
    /\ epc = [i |-> 1, phase |-> "idle"]
    /\ epending = {}
    /\ ecount = NoCounts
    /\ ran = {}
    /\ handed = {}
    /\ sentOut = {}

FwdIdle ==
    /\ fpc = "idle"
    /\ method = "GET"
    /\ clientHdr = NoHeaders
    /\ rHdr = NoHeaders
    /\ reqHdr = NoHeaders
    /\ wire = NoHeaders

CodecIdle ==
    /\ jrec = NoProxy
    /\ jpc = "idle"
    /\ jval = Bytes(0)
    /\ jdec = [err |-> FALSE, p |-> NoProxy]
    /\ jval2 = Bytes(0)

\* replies a SOCKS5 server can give to CONNECT: success with a bound address of
\* each type, a refusal, and a reply of another protocol version
Replies ==
    { <<5, 0, 0, 1>> \o <<10, 0, 0, 1>> \o <<0, 80>>,
      <<5, 0, 0, 3, 1>> \o <<1>> \o <<0, 80>>,
      <<5, 0, 0, 3, 2>> \o <<1, 1>> \o <<0, 80>>,
      <<5, 0, 0, 4>> \o [i \in 1..16 |-> 0] \o <<0, 80>>,
      <<5, 1, 0, 1>> \o <<0, 0, 0, 0>> \o <<0, 0>>,
      <<4, 0, 0, 1>> \o <<0, 0, 0, 0>> \o <<0, 0>> }

\* what the target has already sent through the tunnel when the reply is read
Payloads == {<<>>, <<7>>, <<7, 7>>}

\* a byte buffer of n zero bytes with the bytes read stored at its start
Filled(bytes, n) == [i \in 1..n |-> IF i <= Len(bytes) THEN bytes[i] ELSE 0]

\* the bytes on the connection that have not been read yet
Unread(stream, pos) == SubSeq(stream, pos + 1, Len(stream))

\* conn.Read(buf): the counts it can return when bytes are pending
ReadCounts(buflen, pending) == 1..Min(buflen, Len(pending))

\* make([]byte, 5)
headerLen == 5

\* checkSOCKS5's reply parser: io.ReadFull of 4 header bytes, then of the length
\* byte for ATYP 3, then of the address and port; n is the bytes it consumed
checkSOCKS5Reply(stream) ==
    IF Len(stream) < 4 THEN [ok |-> FALSE, n |-> Len(stream)]
    ELSE IF stream[1] # 5 \/ stream[2] # 0 THEN [ok |-> FALSE, n |-> 4]
    ELSE LET atyp == stream[4] IN
         IF atyp = 1 THEN [ok |-> Len(stream) >= 4 + 6, n |-> Min(Len(stream), 4 + 6)]
         ELSE IF atyp = 4 THEN [ok |-> Len(stream) >= 4 + 18, n |-> Min(Len(stream), 4 + 18)]
         ELSE IF atyp = 3 THEN
              IF Len(stream) < 5 THEN [ok |-> FALSE, n |-> 4]
              ELSE [ok |-> Len(stream) >= 5 + stream[5] + 2,
                    n |-> Min(Len(stream), 5 + stream[5] + 2)]
         ELSE [ok |-> FALSE, n |-> 4]

ReplyInit ==
    /\ r5reply \in Replies
    /\ r5payload \in Payloads
    /\ r5pc = "header"
    /\ r5pos = 0
    /\ r5hdr = Filled(<<>>, headerLen)
    /\ r5need = 0

ReplyIdle ==
    /\ r5reply = <<>>
    /\ r5payload = <<>>
    /\ r5pc = "idle"
    /\ r5pos = 0
    /\ r5hdr = Filled(<<>>, headerLen)
    /\ r5need = 0

\* socks5ReadConnectResponse: conn.Read(header), the version and status tests
\* and the switch on header[3]
R5ReadHeader ==
    /\ r5pc = "header"
    /\ \E n \in ReadCounts(headerLen, Unread(r5reply \o r5payload, r5pos)) :
         LET hdr == Filled(SubSeq(Unread(r5reply \o r5payload, r5pos), 1, n), headerLen) IN
         /\ r5hdr' = hdr
         /\ r5pos' = r5pos + n
         /\ IF hdr[1] # 5 \/ hdr[2] # 0 THEN r5pc' = "err" /\ r5need' = r5need
            ELSE IF hdr[4] = 1 THEN r5pc' = "rest" /\ r5need' = 4 + 2
            ELSE IF hdr[4] = 3 THEN r5pc' = "len" /\ r5need' = r5need
            ELSE IF hdr[4] = 4 THEN r5pc' = "rest" /\ r5need' = 16 + 2
            ELSE r5pc' = "err" /\ r5need' = r5need
    /\ UNCHANGED <<r5reply, r5payload>>
    /\ UNCHANGED <<storeVars, probeVars, connVars, pipeVars, validVars, schedVars, extVars, fwdVars, codecVars, socksVars, countVars, weightVars>>

\* socks5ReadConnectResponse, case 0x03: conn.Read(lenByte); with nothing pending
\* the read ends with the connection's deadline or close and the error is returned
R5ReadLen ==
    /\ r5pc = "len"
    /\ IF Unread(r5reply \o r5payload, r5pos) = <<>>
       THEN r5pc' = "err" /\ UNCHANGED <<r5pos, r5need>>
       ELSE /\ r5need' = Head(Unread(r5reply \o r5payload, r5pos)) + 2
            /\ r5pos' = r5pos + 1
            /\ r5pc' = "rest"
    /\ UNCHANGED <<r5reply, r5payload, r5hdr>>
    /\ UNCHANGED <<storeVars, probeVars, connVars, pipeVars, validVars, schedVars, extVars, fwdVars, codecVars, socksVars, countVars, weightVars>>

\* socks5ReadConnectResponse: conn.Read(remaining) and return nil
R5ReadRest ==
    /\ r5pc = "rest"
    /\ IF Unread(r5reply \o r5payload, r5pos) = <<>>
       THEN r5pc' = "err" /\ r5pos' = r5pos
       ELSE \E n \in ReadCounts(r5need, Unread(r5reply \o r5payload, r5pos)) :
               /\ r5pos' = r5pos + n
               /\ r5pc' = "ok"
    /\ UNCHANGED <<r5reply, r5payload, r5hdr, r5need>>
    /\ UNCHANGED <<storeVars, probeVars, connVars, pipeVars, validVars, schedVars, extVars, fwdVars, codecVars, socksVars, countVars, weightVars>>

\* totalCount += p.Count over the first n records
RECURSIVE Cumulative(_, _)
Cumulative(l, n) == IF n = 0 THEN 0 ELSE Cumulative(l, n - 1) + l[n]

\* the values of rand.Int63() % totalCount
RandValues(l) == 0..(Cumulative(l, Len(l)) - 1)

\* the loop of selectProxyByWeight with weight := p.Count: the first record with
\* cumulative+weight > randValue, else the last record
scanByWeight(l, randValue) ==
    IF \E i \in 1..Len(l) : Cumulative(l, i) > randValue
    THEN CHOOSE i \in 1..Len(l) :
             /\ Cumulative(l, i) > randValue
             /\ \A j \in 1..(i - 1) : ~(Cumulative(l, j) > randValue)
    ELSE Len(l)

\* selectProxyByWeight: the records it can return (0 is nil); with a total of
\* zero it falls back to selectProxy, a uniform draw
selectProxyByWeight(l) ==
    IF Len(l) = 0 THEN {0}
    ELSE IF Cumulative(l, Len(l)) = 0 THEN 1..Len(l)
    ELSE {scanByWeight(l, r) : r \in RandValues(l)}

\* the number of equally likely draws that return record i
Chance(l, i) ==
    IF Cumulative(l, Len(l)) = 0 THEN 1
    ELSE Cardinality({r \in RandValues(l) : scanByWeight(l, r) = i})

WeightInit ==
    /\ wlist \in UNION {[1..n -> 0..1] : n \in 0..MaxList}
    /\ wspc = "select"
    /\ wpick = 0

WeightIdle ==
    /\ wlist = <<>>
    /\ wspc = "idle"
    /\ wpick = 0

\* a call of selectProxyByWeight
WeightSelect ==
    /\ wspc = "select"
    /\ wpick' \in selectProxyByWeight(wlist)
    /\ wspc' = "picked"
    /\ wlist' = wlist
    /\ UNCHANGED <<storeVars, probeVars, connVars, pipeVars, validVars, schedVars, extVars, fwdVars, codecVars, socksVars, countVars, replyVars>>

\* the record returned is used: updateProxyCount's proxy.Count++
WeightUse ==
    /\ wspc = "picked"
    /\ wpick # 0
    /\ wlist[wpick] < MaxWeight
    /\ wlist' = [wlist EXCEPT ![wpick] = wlist[wpick] + 1]
    /\ wspc' = "select"
    /\ wpick' = 0
    /\ UNCHANGED <<storeVars, probeVars, connVars, pipeVars, validVars, schedVars, extVars, fwdVars, codecVars, socksVars, countVars, replyVars>>

\* the upstreams whose usage is counted
CountProxies == {MemProxy("80")}

CountIdle == served = [p \in CountProxies |-> 0]

\* a successful regular request through p: handleRegularRequest's accounting,
\* h.updateProxyCount(proxy) then h.updateProxyHealth(proxy, true)
CountServe(p) ==
    /\ served[p] < MaxServed
    /\ db' = updateProxyHealth(updateProxyCount(db, p), p, TRUE)
    /\ served' = [served EXCEPT ![p] = IF CountKey(p) \in DOMAIN db THEN served[p] + 1 ELSE 1]
    /\ UNCHANGED storeRest
    /\ UNCHANGED <<probeVars, connVars, pipeVars, validVars, schedVars, extVars, fwdVars, codecVars, socksVars, replyVars, weightVars>>

Socks5Idle ==
    /\ s5addr = [host |-> [kind |-> "name", b |-> <<>>], port |-> 0]
    /\ s5proxy = [Protocol |-> "", User |-> <<>>, Pass |-> <<>>]
    /\ s5pc = "idle"
    /\ s5conn = "none"
    /\ s5wire = <<>>
    /\ s5req = <<>>
    /\ s5route = "none"

Init == StoreInit /\ ProbeIdle /\ ConnIdle /\ PipeIdle /\ ValidIdle /\ SchedIdle /\ ExtIdle /\ FwdIdle /\ CodecIdle /\ Socks5Idle /\ CountIdle /\ ReplyIdle /\ WeightIdle

Next ==
    \/ Tick
    \/ DiscoveryWrite
    \/ HealthStart
    \/ HealthCheckOne
    \/ HealthDone
    \/ Cleanup
    \/ ReqSelect
    \/ ReqDo
    \/ ReqCount
    \/ ReqHealth

Spec == Init /\ [][Next]_vars

\* the store under the three maintenance tasks alone
MaintNext ==
    \/ Tick
    \/ DiscoveryWrite
    \/ HealthStart
    \/ HealthCheckLogged
    \/ HealthDone
    \/ CleanupLogged

MaintSpec == Init /\ [][MaintNext]_vars

ProbeSpecInit == StoreInit /\ ProbeInit /\ ConnIdle /\ PipeIdle /\ ValidIdle /\ SchedIdle /\ ExtIdle /\ FwdIdle /\ CodecIdle /\ Socks5Idle /\ CountIdle /\ ReplyIdle /\ WeightIdle

ProbeNext ==
    \/ DetDial
    \/ \E l \in Labels : ProbeStart(l)
    \/ \E l \in Labels : ProbeDial(l)
    \/ \E l \in Labels : ProbeCheck(l)
    \/ \E l \in Labels : ProbeReport(l)
    \/ Deadline
    \/ Closer
    \/ Collect
    \/ DetReturn

ProbeSpec == ProbeSpecInit /\ [][ProbeNext]_vars

\* every goroutine of the prober is scheduled while it can take a step; the
\* 20 s timer is not required to fire
ProbeFair ==
    /\ WF_vars(DetDial)
    /\ \A l \in Labels :
         /\ WF_vars(ProbeStart(l))
         /\ WF_vars(ProbeDial(l))
         /\ WF_vars(ProbeCheck(l))
         /\ WF_vars(ProbeReport(l))
    /\ WF_vars(Closer)
    /\ WF_vars(Collect)
    /\ WF_vars(DetReturn)

ProbeLiveSpec == ProbeSpecInit /\ [][ProbeNext]_vars /\ ProbeFair

ConnSpecInit == StoreInit /\ ProbeIdle /\ ConnInit /\ PipeIdle /\ ValidIdle /\ SchedIdle /\ ExtIdle /\ FwdIdle /\ CodecIdle /\ Socks5Idle /\ CountIdle /\ ReplyIdle /\ WeightIdle

ConnNext ==
    \/ ConnStart
    \/ ConnTransport
    \/ ConnDial
    \/ ConnAccount
    \/ ConnHijack
    \/ \E s \in Sides : PeerEOF(s)
    \/ \E c \in Copiers : CopierReturn(c)
    \/ \E c \in Copiers : CopierClose(c)
    \/ ConnWait
    \/ ConnCloseClient
    \/ ConnCloseUpstream
    \/ ConnAccept

ConnSpec == ConnSpecInit /\ [][ConnNext]_vars

\* Scheduling of the tunnel: a goroutine that can run eventually runs.  A copier
\* is only certain to leave io.Copy when its read ends; a write to a closed
\* destination happens only if the peer still sends data.
ConnFair ==
    /\ \A c \in Copiers : WF_vars(CopierReturn(c) /\ readReturns(c, sock, eof))
    /\ \A c \in Copiers : WF_vars(CopierClose(c))
    /\ WF_vars(ConnWait)
    /\ WF_vars(ConnCloseClient)
    /\ WF_vars(ConnCloseUpstream)

ConnLiveSpec == ConnSpecInit /\ [][ConnNext]_vars /\ ConnFair

PipeSpecInit == StoreInit /\ ProbeIdle /\ ConnIdle /\ PipeInit /\ ValidIdle /\ SchedIdle /\ ExtIdle /\ FwdIdle /\ CodecIdle /\ Socks5Idle /\ CountIdle /\ ReplyIdle /\ WeightIdle

PipeNext ==
    \/ \E t \in Tasks : TaskValidate(t)
    \/ \E t \in Tasks : TaskSend(t)
    \/ WriterRecv
    \/ WriterExit
    \/ GatherClose
    \/ GatherReturn

PipeSpec == PipeSpecInit /\ [][PipeNext]_vars

\* Scheduling of a pipeline run: every fetch and validation terminates, and a
\* goroutine that can take its next step eventually takes it.
PipeFair ==
    /\ \A t \in Tasks : WF_vars(TaskValidate(t))
    /\ \A t \in Tasks : WF_vars(TaskSend(t))
    /\ WF_vars(WriterRecv)
    /\ WF_vars(WriterExit)
    /\ WF_vars(GatherClose)
    /\ WF_vars(GatherReturn)

PipeLiveSpec == PipeSpecInit /\ [][PipeNext]_vars /\ PipeFair

ValidSpecInit == StoreInit /\ ProbeIdle /\ ConnIdle /\ PipeIdle /\ ValidInit /\ SchedIdle /\ ExtIdle /\ FwdIdle /\ CodecIdle /\ Socks5Idle /\ CountIdle /\ ReplyIdle /\ WeightIdle

ValidNext == Validate

ValidSpec == ValidSpecInit /\ [][ValidNext]_vars

SchedSpecInit == StoreInit /\ ProbeIdle /\ ConnIdle /\ PipeIdle /\ ValidIdle /\ SchedInit /\ ExtIdle /\ FwdIdle /\ CodecIdle /\ Socks5Idle /\ CountIdle /\ ReplyIdle /\ WeightIdle

SchedNext ==
    \/ MainCall
    \/ MainReturn
    \/ CronStart
    \/ MainList
    \/ TimePasses
    \/ CronFire
    \/ \E t \in MaintTasks : JobReturn(t)

SchedSpec == SchedSpecInit /\ [][SchedNext]_vars

ExtractSpecInit == StoreInit /\ ProbeIdle /\ ConnIdle /\ PipeIdle /\ ValidIdle /\ SchedIdle /\ ExtInit /\ FwdIdle /\ CodecIdle /\ Socks5Idle /\ CountIdle /\ ReplyIdle /\ WeightIdle

ExtractNext ==
    \/ ExtScan
    \/ ExtValidate
    \/ ExtReturn

ExtractSpec == ExtractSpecInit /\ [][ExtractNext]_vars

FwdSpecInit == StoreInit /\ ProbeIdle /\ ConnIdle /\ PipeIdle /\ ValidIdle /\ SchedIdle /\ ExtIdle /\ FwdInit /\ CodecIdle /\ Socks5Idle /\ CountIdle /\ ReplyIdle /\ WeightIdle

FwdNext ==
    \/ FwdServe
    \/ FwdBuild
    \/ FwdDo

FwdSpec == FwdSpecInit /\ [][FwdNext]_vars

CodecSpecInit == StoreInit /\ ProbeIdle /\ ConnIdle /\ PipeIdle /\ ValidIdle /\ SchedIdle /\ ExtIdle /\ FwdIdle /\ CodecInit /\ Socks5Idle /\ CountIdle /\ ReplyIdle /\ WeightIdle

CodecNext ==
    \/ CodecEncode
    \/ CodecDecode
    \/ CodecReEncode

CodecSpec == CodecSpecInit /\ [][CodecNext]_vars

Socks5SpecInit == StoreInit /\ ProbeIdle /\ ConnIdle /\ PipeIdle /\ ValidIdle /\ SchedIdle /\ ExtIdle /\ FwdIdle /\ CodecIdle /\ Socks5Init /\ CountIdle /\ ReplyIdle /\ WeightIdle

Socks5Next ==
    \/ TransportDial
    \/ DialHTTP
    \/ S5Dial
    \/ S5Greet
    \/ S5Auth
    \/ S5SendConnect
    \/ S5ReadResponse

Socks5Spec == Socks5SpecInit /\ [][Socks5Next]_vars

CounterSpecInit == StoreInit /\ ProbeIdle /\ ConnIdle /\ PipeIdle /\ ValidIdle /\ SchedIdle /\ ExtIdle /\ FwdIdle /\ CodecIdle /\ Socks5Idle /\ CountIdle /\ ReplyIdle /\ WeightIdle

CounterNext ==
    \/ \E p \in CountProxies : CountServe(p)
    \/ Cleanup

CounterSpec == CounterSpecInit /\ [][CounterNext]_vars

ReplySpecInit == StoreInit /\ ProbeIdle /\ ConnIdle /\ PipeIdle /\ ValidIdle /\ SchedIdle /\ ExtIdle /\ FwdIdle /\ CodecIdle /\ Socks5Idle /\ CountIdle /\ ReplyInit /\ WeightIdle

ReplyNext ==
    \/ R5ReadHeader
    \/ R5ReadLen
    \/ R5ReadRest

ReplySpec == ReplySpecInit /\ [][ReplyNext]_vars

WeightSpecInit == StoreInit /\ ProbeIdle /\ ConnIdle /\ PipeIdle /\ ValidIdle /\ SchedIdle /\ ExtIdle /\ FwdIdle /\ CodecIdle /\ Socks5Idle /\ CountIdle /\ ReplyIdle /\ WeightInit

WeightNext ==
    \/ WeightSelect
    \/ WeightUse

WeightSpec == WeightSpecInit /\ [][WeightNext]_vars

-----------------------------------------------------------------------------
(* Properties *)

\* C1 (Spec): every record selectProxyFromDB can return from a reachable store
\* has disable=false and a non-zero updated timestamp and is the decoding of a
\* stored value; the record a request in flight holds satisfies the same.
C1_SelectionEligible ==
    /\ \A res \in selectProxyFromDB(db, FALSE) :
         res.err = "" =>
            /\ ~res.p.Disable
            /\ res.p.Updated # 0
            /\ \E k \in DOMAIN db :
                 ~LoadFromJSON(db[k]).err /\ LoadFromJSON(db[k]).p = res.p
    /\ rpc # "idle" => (~rproxy.Disable /\ rproxy.Updated # 0)

\* a selection was made from a store that also holds a counter entry (which does
\* not decode) and a disabled record
C1_Witness ==
    /\ rpc = "selected"
    /\ \E k \in DOMAIN db : LoadFromJSON(db[k]).err
    /\ \E k \in DOMAIN db : ~LoadFromJSON(db[k]).err /\ LoadFromJSON(db[k]).p.Disable

\* the most preferred label of a set of labels
BestLabel(S) == CHOOSE l \in S : \A m \in S : Priority(l) <= Priority(m)

\* C2 (ProbeSpec), as claimed: when the peer answers two or more of the probes and
\* no timer fires, the prober returns the answered label of lowest priority number.
C2_LowestPriorityWins ==
    (dpc = "done" /\ tcpOK /\ ~timedOut /\ Cardinality(peerOK) >= 2)
        => dret.label = BestLabel(peerOK)

CleanupPost(d, t) ==
    \A k \in DOMAIN d :
        /\ ~LoadFromJSON(d[k]).err
        /\ ~LoadFromJSON(d[k]).p.Disable
        /\ LoadFromJSON(d[k]).p.Updated # 0
        /\ t - LoadFromJSON(d[k]).p.Updated <= MaxAge

\* C4 (Spec): every step that is a cleanup pass leaves only decodable entries with
\* disable=false, a non-zero updated timestamp and an age of at most 72h at the
\* time the pass started.
C4_CleanupLeavesOnlyFresh == [][Cleanup => CleanupPost(db', now)]_vars

\* a pass that deleted at least two entries and kept at least one
C4_Witness ==
    /\ cleanRes.ran
    /\ cleanRes.deleted >= 2
    /\ DOMAIN db # {}
    /\ CleanupPost(db, cleanRes.now)

\* C5 (Spec), as claimed: every stored key is "{protocol}://{ip}:{port}" of the
\* record its value decodes to.
C5_KeyIsAddressOfValue ==
    \A k \in DOMAIN db :
        ~LoadFromJSON(db[k]).err /\ k = String(LoadFromJSON(db[k]).p)

\* number of times the writer has received send t
Occurrences(seq, t) == Cardinality({i \in 1..Len(seq) : seq[i] = t})

\* C6 (PipeSpec), as claimed: once close(proxiesChan) has returned, the writer has
\* observed every completed send exactly once.
C6_ObservedBeforeCloseReturns ==
    gpc \in {"closed", "returned"} => \A t \in sent : Occurrences(observed, t) = 1

\* C6 (PipeSpec), amended: the writer never observes a send twice nor a record
\* that was not sent, and when gatherProxies returns (after joining the writer)
\* it has observed every completed send exactly once.
C6_ObservedBeforeReturn ==
    /\ \A t \in Tasks : Occurrences(observed, t) <= 1
    /\ \A t \in Tasks : Occurrences(observed, t) = 1 => t \in sent
    /\ gpc = "returned" => \A t \in sent : Occurrences(observed, t) = 1

\* a run in which every goroutine sent (more sends than the channel holds)
C6_Witness ==
    /\ gpc = "returned"
    /\ sent = Tasks
    /\ Len(observed) = NumTasks

\* C7 (ConnSpec), as claimed: a CONNECT request that ends without a tunnel has
\* been answered with 502.
C7_FailureBeforeTunnelIs502 ==
    (hpc = "done" /\ ~tunnelOpen) => wStatus = StatusBadGateway

\* C8 (Spec): a request whose selection finds no eligible record is answered 503
\* and ends there; a request whose round trip through the selected upstream
\* fails is answered 502.
C8_RegularRequestStatus ==
    [][ /\ (ReqSelect /\ Eligible(db) = {}) => (rstatus' = 503 /\ rpc' = "idle")
        /\ (ReqDo /\ rcause' = "upstream") => rstatus' = 502 ]_vars

\* a request through a selected upstream failed and was answered 502
C8_Witness ==
    /\ rpc = "idle"
    /\ rcause = "upstream"
    /\ rproxy # NoProxy
    /\ rstatus = 502

\* C9 (ValidSpec), as claimed: whenever ValidProxy returns false the candidate's
\* disable field is true.
C9_FalseImpliesDisabled ==
    (vpc = "done" /\ ~vout.ok) => vout.p.Disable

\* C10 (ValidSpec): ValidProxy returns true only if the prober returned a label
\* and the fetch answered exactly 204; the candidate then has disable=false,
\* updated equal to the (non-zero) current time and the prober's non-empty label.
C10_TrueOnly204 ==
    (vpc = "done" /\ vout.ok) =>
        /\ ~vin.probe.err
        /\ vin.status = 204
        /\ ~vout.p.Disable
        /\ vout.p.Updated = vin.t
        /\ vout.p.Updated # 0
        /\ vout.p.Protocol # ""
        /\ vout.p.Protocol = vin.probe.label

\* a candidate that came in disabled and never validated is accepted
C10_Witness ==
    /\ vpc = "done"
    /\ vout.ok
    /\ vin.p.Disable
    /\ vin.p.Updated = 0

\* C11 (MaintSpec), as claimed: when every goroutine of a health pass has returned,
\* each key whose listed record failed validation in the pass holds, if it is
\* still stored, a record with disable=true.
C11_FailedRecordDisabled ==
    (hcActive /\ hcPending = {}) =>
        \A k \in DOMAIN hcResult :
            (~hcResult[k] /\ k \in DOMAIN db) =>
                (~LoadFromJSON(db[k]).err /\ LoadFromJSON(db[k]).p.Disable)

\* C12 (MaintSpec), as claimed: the step of a health goroutine whose validation
\* succeeds leaves, under the key the record was listed from, a record with
\* disable=false whose updated timestamp is the time of the re-validation.
C12_SuccessRewritesRecord ==
    [][HealthCheckLogged =>
        \A p \in hcPending \ hcPending' :
            hcResult'[String(p)] =>
                /\ String(p) \in DOMAIN db'
                /\ ~LoadFromJSON(db'[String(p)]).err
                /\ ~LoadFromJSON(db'[String(p)]).p.Disable
                /\ LoadFromJSON(db'[String(p)]).p.Updated = now]_vars

\* the cleanup predicate: undecodable, or disabled, or never validated, or older
\* than 72h at time t
CleanupPredicate(v, t) ==
    \/ LoadFromJSON(v).err
    \/ LoadFromJSON(v).p.Disable
    \/ LoadFromJSON(v).p.Updated = 0
    \/ t - LoadFromJSON(v).p.Updated > 72

\* C13 (Spec): a cleanup pass deletes exactly the entries that match the cleanup
\* predicate, leaves every other entry's key and value unchanged, returns the
\* number of entries it deleted, and keeps a record aged exactly 72h.
C13_CleanupDeletesExactly ==
    [][Cleanup =>
        /\ DOMAIN db' = {k \in DOMAIN db : ~CleanupPredicate(db[k], now)}
        /\ \A k \in DOMAIN db' : db'[k] = db[k]
        /\ cleanRes'.deleted = Cardinality(DOMAIN db \ DOMAIN db')
        /\ \A k \in DOMAIN db :
              ( /\ ~LoadFromJSON(db[k]).err
                /\ ~LoadFromJSON(db[k]).p.Disable
                /\ now - LoadFromJSON(db[k]).p.Updated = 72 ) => k \in DOMAIN db']_vars

\* the last pass deleted the usage counter a served request had written and kept
\* a record aged exactly 72h
C13_Witness ==
    /\ cleanRes.ran
    /\ cleanRes.now = now
    /\ cleanRes.deleted >= 1
    /\ rpc = "idle"
    /\ rcause = "ok"
    /\ \A k \in DOMAIN db : ~LoadFromJSON(db[k]).err
    /\ \E k \in DOMAIN db : now - LoadFromJSON(db[k]).p.Updated = 72

\* C14 (PipeSpec): for each record the writer receives, an absent key is inserted
\* and counted as new, a present key is overwritten with the received record and
\* counted as updated, and no other entry changes; the two counters always add
\* up to the number of records received, and when gatherProxies returns, to the
\* number of records sent on the channel.
C14_WriterCounts ==
    /\ [](/\ newProxyCount + updateCount = Len(observed)
          /\ gpc = "returned" => newProxyCount + updateCount = Cardinality(sent))
    /\ [][WriterRecv =>
            /\ String(Head(chanBuf).p) \in DOMAIN db'
            /\ db'[String(Head(chanBuf).p)] = DumpJSON(Head(chanBuf).p)
            /\ \A k \in DOMAIN db' \ {String(Head(chanBuf).p)} :
                  k \in DOMAIN db /\ db'[k] = db[k]
            /\ DOMAIN db \subseteq DOMAIN db'
            /\ String(Head(chanBuf).p) \notin DOMAIN db =>
                  (newProxyCount' = newProxyCount + 1 /\ updateCount' = updateCount)
            /\ String(Head(chanBuf).p) \in DOMAIN db =>
                  (updateCount' = updateCount + 1 /\ newProxyCount' = newProxyCount)]_vars

\* a run that inserted two records under different keys and overwrote one
C14_Witness ==
    /\ gpc = "returned"
    /\ newProxyCount = 2
    /\ updateCount = 1
    /\ Cardinality(DOMAIN db) = 2

\* number of maintenance calls executing
Executing == running["health"] + running["cleanup"] + running["refresh"]

\* C15 (SchedSpec): in the default mode the health re-check, the cleanup and the
\* refresh each return exactly once, in that order, one at a time, before the
\* scheduler is started; no scheduled job is started before all three returned.
C15_StartupSequential ==
    /\ ~cronOn =>
          /\ ~fired
          /\ Executing = (IF mpc = "in" THEN 1 ELSE 0)
          /\ mpc = "in" => running[<<"health", "cleanup", "refresh">>[Len(startupLog) + 1]] = 1
          /\ Len(startupLog) <= 3
          /\ startupLog = SubSeq(<<"health", "cleanup", "refresh">>, 1, Len(startupLog))
    /\ (cronOn \/ fired) => startupLog = <<"health", "cleanup", "refresh">>

\* the scheduler has started jobs after a startup during which time passed
C15_Witness ==
    /\ mpc = "blocked"
    /\ fired
    /\ Executing >= 2
    /\ startupLog = <<"health", "cleanup", "refresh">>

\* C16 (SchedSpec), as claimed: at no time are two maintenance tasks executing.
C16_TasksNeverOverlap ==
    cronOn => Executing <= 1

\* the digits a port text of the payload was made of
PortOf(str) == CHOOSE ds \in PayloadPorts : PortString(ds) = str

\* C17 (ExtractSpec), as claimed: every candidate handed to the validator, and
\* every record sent for storing, has a port that parses to 1..65535.
C17_PortInRange ==
    /\ \A h \in handed : Atoi(PortOf(h.p.Port)) \in 1..65535
    /\ \A r \in sentOut : Atoi(PortOf(r.Port)) \in 1..65535

\* C18 (ExtractSpec): the JSON/text extractor is called first; the HTML-table
\* extractor is called only after the JSON/text extractor returned with zero
\* survivors, and when Extractor returns it has been called if and only if the
\* JSON/text extractor had zero survivors.
C18_TableOnlyAfterEmptyText ==
    /\ ran # {} => "text" \in ran
    /\ "table" \in ran => (ecount["text"] = 0 /\ epc.i = 2)
    /\ epc.i = 1 => (ecount["table"] = 0 /\ \A h \in handed : h.by = "text")
    /\ epc.phase = "done" => ("table" \in ran <=> ecount["text"] = 0)

\* the JSON/text extractor had a survivor, and the table rows of the payload,
\* which the HTML-table extractor would have accepted, were never looked at
C18_Witness ==
    /\ epc.phase = "done"
    /\ ecount["text"] > 0
    /\ candidatesOf("table", body) # {}
    /\ ran = {"text"}

\* C19 (ProbeSpec): the prober returns nothing before it is done; a failed TCP
\* dial returns the error with no label and no probe goroutine is ever started;
\* otherwise it returns no error and exactly one label of {socks5, http, https},
\* which is http when no probe reported a success.
C19_OneOutcome ==
    /\ dpc # "done" => dret = NoReturn
    /\ (dpc = "done" /\ ~tcpOK) =>
          /\ dret.err
          /\ dret.label = ""
          /\ \A l \in Labels : ppc[l] = "new"
          /\ resultChan = <<>>
    /\ (dpc = "done" /\ tcpOK) =>
          /\ ~dret.err
          /\ dret.label \in {"socks5", "http", "https"}
          /\ bestResult = NoResult => dret.label = "http"
          /\ peerOK = {} => dret.label = "http"

\* the peer answers some probe, but every probe that ran timed out: the prober
\* falls back to http
C19_Witness ==
    /\ dpc = "done"
    /\ tcpOK
    /\ peerOK = {"socks5"}
    /\ timedOut
    /\ bestResult = NoResult
    /\ dret = [label |-> "http", err |-> FALSE]

\* C20 (FwdSpec), as claimed: the request written to the upstream carries none of
\* Proxy-Connection, Proxy-Authenticate, Proxy-Authorization, carries
\* X-Forwarded-For equal to the client's remote address, and carries every other
\* header of the client request with the values the client sent.
C20_HeadersForwarded ==
    fpc = "sent" =>
        /\ \A n \in {"Proxy-Connection", "Proxy-Authenticate", "Proxy-Authorization"} :
              n \notin DOMAIN wire
        /\ "X-Forwarded-For" \in DOMAIN wire
        /\ wire["X-Forwarded-For"] = <<RemoteAddr>>
        /\ \A n \in DOMAIN clientHdr \ {"Proxy-Connection", "Proxy-Authenticate",
                                          "Proxy-Authorization", "X-Forwarded-For"} :
              n \in DOMAIN wire /\ wire[n] = clientHdr[n]

\* the stored usage count and health score of an upstream; nothing stored is 0
CountOf(d, p) == IF CountKey(p) \in DOMAIN d THEN d[CountKey(p)].b ELSE 0
HealthOf(d, p) == IF HealthKey(p) \in DOMAIN d THEN d[HealthKey(p)].b ELSE 0

\* C21 (Spec), as claimed: the accounting steps of a successfully served request
\* leave the usage count of its upstream strictly greater, and its health score
\* stored and strictly greater unless it already was 100.
C21_CountAndHealthGrow ==
    [][ /\ ReqCount => CountOf(db', rproxy) > CountOf(db, rproxy)
        /\ ReqHealth =>
              /\ HealthKey(rproxy) \in DOMAIN db'
              /\ HealthOf(db', rproxy) > HealthOf(db, rproxy)
                    \/ HealthOf(db, rproxy) = 100 ]_vars

\* C22 (Spec), as claimed: the step in which a request through the selected
\* upstream fails and is answered 502 leaves a health score for that upstream
\* that is stored and 10 lower than before (not below 0).
C22_FailureDecrementsHealth ==
    [][ (ReqDo /\ rcause' = "upstream") =>
            /\ rstatus' = 502
            /\ HealthKey(rproxy) \in DOMAIN db'
            /\ HealthOf(db', rproxy) = Max(HealthOf(db, rproxy) - 10, 0) ]_vars

\* C24 (Spec), as claimed: a request whose selection fails because the store
\* could not be read is answered 500, and one whose selection finds a readable
\* store without eligible record is answered 503.
C24_StoreErrorIs500 ==
    /\ (rpc = "idle" /\ rcause = "store") => rstatus = 500
    /\ (rpc = "idle" /\ rcause = "unavailable") => rstatus = 503

\* handleConnect: the retry argument of h.getRandomTransport(3)
RetryBudget == 3

\* C23 (ConnSpec), as claimed: a CONNECT request that ended because the upstream
\* could not be dialed has made RetryBudget selections and dials, and no request
\* makes more.
C23_FailsAfterThreeAttempts ==
    /\ dialAttempts <= RetryBudget
    /\ (hpc = "done" /\ dialAttempts > 0 /\ sock.upstream = "none")
            => dialAttempts = RetryBudget

\* C26 (ConnSpec), as claimed: a fault caught by the handler's recover leaves the
\* client with status 500, and a copier that has ended, by return or by a caught
\* fault, has closed its destination socket.
C26_FaultsRecovered ==
    /\ (hpc = "done" /\ recovered) => wStatus = StatusInternalServerError
    /\ \A c \in Copiers :
          cpc[c] = "done" => (sock[CopierDst(c)] = "closed" /\ closeCalls[CopierDst(c)] >= 1)

\* the tunnel has reached Closed: both copiers ended, the wait returned and the
\* handler closed both sockets
TunnelClosed ==
    /\ hpc = "done"
    /\ \A c \in Copiers : cpc[c] = "done"
    /\ \A s \in Sides : sock[s] = "closed"

C25_ClosedOnceAfterTasks ==
    /\ [][chanClosed' # chanClosed =>
            /\ GatherClose
            /\ ~chanClosed
            /\ \A t \in Tasks : tpc[t] = "done"]_vars
    /\ [](gpc \in {"closed", "returned"} <=> chanClosed)
    /\ [](\A t \in Tasks : tpc[t] # "panic")
    /\ [][\A t \in Tasks : TaskSend(t) => ~chanClosed]_vars

\* the channel was closed after every goroutine finished, records still buffered
C25_Witness ==
    /\ chanClosed
    /\ gpc = "closed"
    /\ \A t \in Tasks : tpc[t] = "done"
    /\ sent # {}
    /\ chanBuf # <<>>

\* C29 (ValidSpec): whenever the prober answered for the candidate's ip:port,
\* the candidate leaves validation with the prober's label as its protocol,
\* whatever protocol hint it came with; a record that passed validation has the
\* store key "{label}://{ip}:{port}".
C29_ProtocolIsProbedLabel ==
    /\ (vpc = "done" /\ ~vin.probe.err /\ vin.p.IP \notin {"", "0.0.0.0", "127.0.0.1"})
            => vout.p.Protocol = vin.probe.label
    /\ (vpc = "done" /\ vout.ok)
            => String(vout.p) = vin.probe.label \o "://" \o vin.p.IP \o ":" \o vin.p.Port

\* a candidate hinted socks5 passed validation with the probed label http
C29_Witness ==
    /\ vpc = "done"
    /\ vout.ok
    /\ vin.p.Protocol = "socks5"
    /\ vin.probe.label = "http"
    /\ vout.p.Protocol = "http"

C30_AddressTypeMatchesTarget ==
    s5pc \in {"response", "done"} =>
        LET h == s5addr.host
            n == Len(h.b)
        IN  /\ SubSeq(s5req, 1, 3) = <<5, 1, 0>>
            /\ h.kind = "ipv4" =>
                  /\ s5req[4] = 1
                  /\ Len(s5req) = 4 + 4 + 2
                  /\ SubSeq(s5req, 5, 8) = h.b
            /\ h.kind = "ipv6" =>
                  /\ s5req[4] = 4
                  /\ Len(s5req) = 4 + 16 + 2
                  /\ SubSeq(s5req, 5, 20) = h.b
            /\ h.kind = "name" =>
                  /\ s5req[4] = 3
                  /\ s5req[5] = n
                  /\ Len(s5req) = 4 + 1 + n + 2
                  /\ SubSeq(s5req, 6, 5 + n) = h.b
            /\ s5req[Len(s5req) - 1] * 256 + s5req[Len(s5req)] = s5addr.port

\* C31 (Socks5Spec), as claimed: the transport of a regular request dials the
\* target itself only if the selected record's protocol is none of http, https
\* and socks5; for those three it goes through the upstream.
C31_UpstreamProtocolsNotDirect ==
    s5route # "none" =>
        (s5route = "direct" <=> s5proxy.Protocol \notin {"http", "https", "socks5"})

\* C32 (MaintSpec), as claimed: once a health pass has completed, no key that a
\* cleanup pass deleted while the health pass was running holds a record with
\* disable=true.
C32_DeletedNotRecreated ==
    ~hcActive =>
        \A k \in cleaned :
            k \in DOMAIN db => (~LoadFromJSON(db[k]).err /\ ~LoadFromJSON(db[k]).p.Disable)

\* C33 (PipeSpec): every record waiting in the proxies channel, and every record
\* the writer puts into the store, has disable=false, a non-zero updated
\* timestamp and a non-empty protocol, and is eligible for selection from the
\* store the write leaves.
C33_WrittenRecordsEligible ==
    /\ [](\A i \in 1..Len(chanBuf) :
            /\ ~chanBuf[i].p.Disable
            /\ chanBuf[i].p.Updated # 0
            /\ chanBuf[i].p.Protocol # "")
    /\ [][WriterRecv =>
            /\ ~Head(chanBuf).p.Disable
            /\ Head(chanBuf).p.Updated # 0
            /\ Head(chanBuf).p.Protocol # ""
            /\ Head(chanBuf).p \in Eligible(db')]_vars

\* the writer has stored a record whose protocol the prober changed from the
\* extractor's hint
C33_Witness ==
    /\ Len(observed) >= 1
    /\ \E k \in DOMAIN db :
          /\ LoadFromJSON(db[k]).p.Protocol = "socks5"
          /\ LoadFromJSON(db[k]).p \in Eligible(db)

\* C34 (PipeLiveSpec): a pipeline run can always take a step until gatherProxies
\* has returned; every send, blocked on a full channel or not, is eventually
\* received by the writer; and eventually the channel is closed, the writer has
\* exited and gatherProxies has returned.
C34_PipelineTerminates ==
    /\ [](gpc # "returned" => ENABLED PipeNext)
    /\ \A t \in Tasks : (tpc[t] = "sending") ~> (Occurrences(observed, t) = 1)
    /\ <>(gpc = "returned" /\ chanClosed /\ wpc = "done" /\ chanBuf = <<>>)

\* a validation goroutine is blocked on the full channel
C34_Witness ==
    /\ ~chanClosed
    /\ Len(chanBuf) = ChanCap
    /\ \E t \in Tasks : tpc[t] = "sending"


\* C35 (ProbeLiveSpec): every invocation of the prober returns; a probe that has
\* a success to report always finds room in the result channel, the channel is
\* closed only after all three probes have finished, and when the prober
\* returns after probing the channel is closed and drained.
C35_ProberTerminates ==
    /\ <>(dpc = "done")
    /\ [](\A l \in Labels : ppc[l] = "report" => Len(resultChan) < resultChanCap)
    /\ \A l \in Labels : (ppc[l] = "report") ~> (ppc[l] = "done")
    /\ [](chanClosedP => \A l \in Labels : ppc[l] = "done")
    /\ []((dpc = "done" /\ tcpOK) => (chanClosedP /\ resultChan = <<>>))

\* C35 witness: two probes have reported and sit in the channel while the third
\* still has its success to report
C35_Witness ==
    /\ Len(resultChan) = 2
    /\ \E l \in Labels : ppc[l] = "report"
    /\ ~chanClosedP


C37_CountEqualsServed ==
    \A p \in CountProxies :
        CountKey(p) \in DOMAIN db => db[CountKey(p)].b = served[p]


\* C38 (ReplySpec), as claimed: when socks5ReadConnectResponse has returned nil
\* it has consumed exactly the bytes of the server's reply, so the first byte of
\* tunnelled payload is unread, and as many bytes as checkSOCKS5's reply parser
\* consumes of the same bytes.
C38_ConsumesExactlyReply ==
    r5pc = "ok" =>
        /\ r5pos = Len(r5reply)
        /\ r5pos = checkSOCKS5Reply(r5reply \o r5payload).n


\* C39 (WeightSpec), as claimed: in selectProxyByWeight a record with a lower
\* use count is at least as likely to be returned as one with a higher use
\* count, and while some record has a use count above 0 a record with use count
\* 0 can still be returned.
C39_LowerCountNotLessSelectable ==
    wspc = "picked" =>
        /\ \A i, j \in 1..Len(wlist) :
               wlist[i] < wlist[j] => Chance(wlist, i) >= Chance(wlist, j)
        /\ \A i \in 1..Len(wlist) :
               (wlist[i] = 0 /\ Cumulative(wlist, Len(wlist)) > 0)
                   => i \in selectProxyByWeight(wlist)

=============================================================================
